---- MODULE Spec2Model ----
(***************************************************************************)
(* radio-gaga: the Process Supervisor (utils/stream_manager.py, class       *)
(* StreamManager) and the Metadata Cache (utils/now_playing.py, class       *)
(* NowPlayingFetcher) as state machines.                                   *)
(*                                                                         *)
(* The caller (the UI loop of tui.py) is one thread: it invokes play,     *)
(* stop, switch and status one at a time.  Each method is stepped through  *)
(* its system calls (Popen, killpg, wait, poll), because the decoder       *)
(* processes are another party: a process may exit between any two steps.  *)
(* An operation is complete when pc is back at "idle".                     *)
(*                                                                         *)
(* The cache has threads of its own: the polling loops spawned by start()  *)
(* and the Timer threads that re-open the notification throttle.  Thread 0 *)
(* is the caller while it runs the update code inside force_update.        *)
(***************************************************************************)
EXTENDS Integers, Sequences, FiniteSets, TLC

\* Number of decoder processes the caller may launch in one run.
MaxProcs == 3

\* Number of polling loops start() may spawn in one run.
MaxStarts == 2

\* Number of update rounds (cycles of a loop, force_update calls) in one run.
MaxUpdates == 2

\* The longest icy-title tag the probe is given
MaxTagLen == 8

\* Python's Optional: None is the empty tuple, a present value x is <<x>>.
None == <<>>
Some(x) == <<x>>
Val(o) == o[1]

\* The stream list handed to the constructor: the default configuration.
ConfiguredStreams ==
    << [name |-> "NTS1", url |-> "https://stream-relay-geo.ntslive.net/stream"],
       [name |-> "NTS2", url |-> "https://stream-relay-geo.ntslive.net/stream2"] >>

\* self.streams = {i: stream for i, stream in enumerate(streams)}
streams == [i \in 0 .. (Len(ConfiguredStreams) - 1) |-> ConfiguredStreams[i + 1]]

\* The ids a caller may pass: the known ones and one unknown on either side.
StreamIdInputs == -1 .. Len(ConfiguredStreams)

Pids == 1 .. MaxProcs

VARIABLES
    current_process,    \* Optional pid: the Popen handle held by the supervisor
    current_stream_id,  \* Optional stream id
    toast_callback,     \* TRUE iff a Notifier was supplied at construction
    alive,              \* pids of launched decoder processes that have not exited
    nextPid,            \* pid the next successful Popen returns
    pc,                 \* the caller's position
    stack,              \* return positions of the methods in progress
    op,                 \* the top-level call in progress or last completed
    prev,               \* the top-level call before op, with its result
    pre,                \* the supervisor's fields when op was called
    result,             \* what op returned: "True", "False", "raise" or "none"
    stopRet,            \* what the stop() run inside op returned, "none" if none
    events,             \* system calls made and outcomes seen during op
    toasts,             \* messages given to the Notifier during op
    snapshot,           \* what status() returned, if op is status
    running,            \* self.running of the cache
    thread,             \* Optional thread id: self.thread of the cache
    spawned,            \* number of polling loops spawned so far
    th,                 \* per thread: position and locals in the update code
    cache,              \* self.cache: name -> Optional entry, None for no key
    lock,               \* Optional thread id: the holder of self.lock
    api_error_shown,    \* the throttle flag
    timers,             \* number of Timer threads that have not fired yet
    windowToasts,       \* notifications emitted since the flag was last cleared
    windowFails,        \* request failures seen since the flag was last cleared
    clock,              \* the time datetime.now() reads: update rounds begun
    query,              \* Optional name: the argument of the cache call in op
    returned,           \* what the last get_now_playing / get_all returned
    shared,             \* names whose returned track_info is the cache's object
    joined,             \* how the join of the last cache stop() ended
    wasRunning,         \* self.running when the cache call in op was made
    ffprobe,            \* how subprocess.run of ffprobe ends, and the tags it prints
    probe_pc,           \* _fetch_icy_metadata: "idle", "run" or "done"
    probe_result,       \* what _fetch_icy_metadata returned
    config_call,        \* get_config_path: its argument, the environment, the files
    config_pc,          \* get_config_path: "idle", "run" or "done"
    config_result,      \* what get_config_path returned or raised
    match_call,         \* _get_track_from_nts: the stream name and the payload
    match_pc,           \* _get_track_from_nts: "idle", "run" or "done"
    match_result        \* what _get_track_from_nts returned, or that it raised

cacheVars == << running, thread, spawned, th, cache, lock, api_error_shown,
                timers, windowToasts, windowFails, clock, query, returned, shared,
                joined, wasRunning >>

probeVars == << ffprobe, probe_pc, probe_result >>
configVars == << config_call, config_pc, config_result >>
matchVars == << match_call, match_pc, match_result >>

vars == << current_process, current_stream_id, toast_callback, alive, nextPid,
           pc, stack, op, prev, pre, result, stopRet, events, toasts, snapshot,
           cacheVars, probeVars, configVars, matchVars >>

fields == << current_process, current_stream_id >>
world == << alive, nextPid >>
frame == << op, prev, pre, toast_callback, cacheVars, probeVars, configVars, matchVars >>

Ev(kind, pid) == [kind |-> kind, pid |-> pid]
Has(kind) == \E i \in 1 .. Len(events) : events[i].kind = kind

\* status_info as built at lines 162-169
EmptySnapshot ==
    [ is_playing |-> FALSE, current_stream_id |-> None,
      current_stream_name |-> None, current_stream_url |-> None,
      process_alive |-> FALSE, available_streams |-> Len(ConfiguredStreams) ]

(***************************************************************************)
(* The Metadata Cache: its data                                            *)
(***************************************************************************)
\* self.streams = {stream['name']: stream for stream in streams}
StreamNames == {ConfiguredStreams[i].name : i \in 1 .. Len(ConfiguredStreams)}
StreamAt(i) == ConfiguredStreams[i]

\* The names a caller may ask for: the configured ones and one that is not.
QueryNames == StreamNames \cup {"Other"}

\* Thread 0 is the caller inside force_update, the others are polling loops.
Tids == 0 .. MaxStarts
LoopTids == 1 .. MaxStarts

\* _get_unknown_track
UnknownTrack ==
    [ artist |-> "Unknown", title |-> "Unknown", show |-> "Live Stream",
      location |-> None, genre |-> None, source |-> "unknown" ]

\* str.upper() on the names that occur
Upper(s) ==
    CASE s = "nts1" -> "NTS1"
      [] s = "nts2" -> "NTS2"
      [] s = "nts 1" -> "NTS 1"
      [] s = "nts 2" -> "NTS 2"
      [] s = "Other" -> "OTHER"
      [] OTHER -> s

Channel(name, now) == [channel_name |-> name, now |-> now]
Broadcast(title, location, track) ==
    [broadcast_title |-> title, location |-> location, current_track |-> track]

\* What response.json() may hand back: a dict with 'results', a dict without,
\* and a JSON scalar (a number), on which "'results' not in nts_data" raises.
Payload(id) ==
    CASE id = "tracks" ->
            [ kind |-> "dict",
              results |-> Some(<<
                Channel("nts 1", Some(Broadcast(Some("Breakfast Show"), Some("London"),
                    Some([artist |-> Some("Four Tet"),
                          title |-> Some("Looking At Your Pager")])))),
                Channel("NTS 2", Some(Broadcast(Some("Late Show"), Some(""), None))) >>) ]
      [] id = "untitled" ->
            [ kind |-> "dict",
              results |-> Some(<<
                Channel("NTS 2", None),
                Channel("NTS 1", Some(Broadcast(None, None,
                    Some([artist |-> None, title |-> Some("Track 7")])))) >>) ]
      [] id = "empty" -> [ kind |-> "dict", results |-> None ]
      [] id = "other" ->
            [ kind |-> "dict",
              results |-> Some(<<
                Channel("Other", Some(Broadcast(Some("Guest Show"), Some("Lagos"),
                    Some([artist |-> Some("Fela Kuti"), title |-> Some("Zombie")])))),
                Channel("NTS1", Some(Broadcast(Some("Mix"), Some("Paris"), None))),
                Channel("NTS 2", Some(Broadcast(Some("Night Show"), None,
                    Some([artist |-> Some("Unknown"), title |-> None])))) >>) ]
      [] id = "scalar" -> [ kind |-> "scalar", results |-> None ]

PayloadIds == {"tracks", "untitled", "empty", "scalar"}

\* dict.get(key, default) on an Optional field
Get(o, default) == IF o = None THEN default ELSE Val(o)

\* lines 163-194: the first channel that matches the stream and has a broadcast
RECURSIVE FirstMatch(_, _)
FirstMatch(stream_name, channels) ==
    IF channels = << >> THEN None
    ELSE LET channel == Head(channels)
             channel_name == Upper(channel.channel_name)
             matches ==
                 \/ Upper(stream_name) = "NTS1" /\ channel_name = "NTS 1"
                 \/ Upper(stream_name) = "NTS2" /\ channel_name = "NTS 2"
         IN  IF matches /\ channel.now # None
             THEN LET now == Val(channel.now)
                      broadcast_title == Get(now.broadcast_title, "Unknown Show")
                      location == Get(now.location, "")
                  IN  IF now.current_track # None
                      THEN Some([ artist |-> Get(Val(now.current_track).artist, "Unknown"),
                                  title |-> Get(Val(now.current_track).title, "Unknown"),
                                  show |-> broadcast_title,
                                  location |-> Some(location),
                                  genre |-> None,
                                  source |-> "nts_api" ])
                      ELSE Some([ artist |-> IF location # "" THEN location ELSE "NTS",
                                  title |-> broadcast_title,
                                  show |-> broadcast_title,
                                  location |-> Some(location),
                                  genre |-> None,
                                  source |-> "nts_api" ])
             ELSE FirstMatch(stream_name, Tail(channels))

\* line 157 raises TypeError on a payload that is no container
NtsRaises(nts) == nts # "none" /\ Payload(nts).kind = "scalar"

\* TrackFromNts with every stream given what the rule of NTS1 finds.
TrackFromNtsOfOneRule(stream_name, nts) ==
    IF nts = "none" \/ Payload(nts).results = None
    THEN None
    ELSE FirstMatch("NTS1", Val(Payload(nts).results))

\* _get_track_from_nts, lines 157-198; nts is "none" when the fetch failed
TrackFromNts(stream_name, nts) ==
    IF nts = "none" \/ Payload(nts).results = None
    THEN None
    ELSE FirstMatch(stream_name, Val(Payload(nts).results))

\* NeedsProbe without the test of the artist: a track is never probed for.
NeedsProbeOnlyWithoutTrack(track_info) == track_info = None

\* NeedsProbe with the test of lines 98 and 328 left out: always probe.
NeedsProbeAlways(track_info) == TRUE

\* lines 98 and 328: the probe is called
NeedsProbe(track_info) == track_info = None \/ Val(track_info).artist = "Unknown"

\* Resolved with a primary track of artist 'Unknown' dropped when the probe
\* gives nothing.
ResolvedDropsUnknownArtist(stream_name, nts, icy_info) ==
    LET track_info == TrackFromNts(stream_name, nts)
    IN  IF NeedsProbe(track_info) THEN icy_info ELSE track_info

\* lines 95-101 and 326-331: the primary track, replaced by the probe's if called
Resolved(stream_name, nts, icy_info) ==
    LET track_info == TrackFromNts(stream_name, nts)
    IN  IF NeedsProbe(track_info) /\ icy_info # None THEN icy_info ELSE track_info

\* lines 104-108 and 333-337
NewEntry(track_info, now) ==
    [ track_info |-> IF track_info # None THEN track_info ELSE Some(UnknownTrack),
      last_updated |-> Some(now),
      source |-> IF track_info # None THEN Val(track_info).source ELSE "unavailable" ]

\* ErrorEntry without the else branch of lines 115-120: nothing is created.
ErrorEntryOnlyDowngrades(old, now) ==
    IF old # None
    THEN Some([Val(old) EXCEPT !.source = "error"])
    ELSE None

\* ErrorEntry without the test of line 113: a new entry replaces the old one.
ErrorEntryReplaces(old, now) ==
    Some([ track_info |-> Some(UnknownTrack), last_updated |-> Some(now),
           source |-> "error" ])

\* lines 113-120: the entry left by a per-stream exception
ErrorEntry(old, now) ==
    IF old # None
    THEN Some([Val(old) EXCEPT !.source = "error"])
    ELSE Some([ track_info |-> Some(UnknownTrack), last_updated |-> Some(now),
                source |-> "error" ])

\* lines 291-295
NotCached ==
    [ track_info |-> Some(UnknownTrack), last_updated |-> None,
      source |-> "not_cached" ]

NoThread == [pc |-> "none", nts |-> "none", idx |-> 0, only |-> None]
NothingReturned == [n \in QueryNames |-> None]

(***************************************************************************)
(* The Metadata Cache: the fallback probe, _fetch_icy_metadata             *)
(***************************************************************************)
\* A Python str is a sequence of characters; those the tags are made of:
Chars == {"a", " ", "-"}
Strings(n) == UNION {[1 .. k -> Chars] : k \in 0 .. n}

Separator == << " ", "-", " " >>
Unknown == << "U", "n", "k", "n", "o", "w", "n" >>
LiveStream == << "L", "i", "v", "e", " ", "S", "t", "r", "e", "a", "m" >>

\* The positions at which sep occurs in s
Occurrences(s, sep) ==
    {i \in 1 .. Len(s) - Len(sep) + 1 : SubSeq(s, i, i + Len(sep) - 1) = sep}

\* line 239: sep in s
In(sep, s) == Occurrences(s, sep) # {}

\* The position split(sep) cuts at when it cuts at the last occurrence.
FindLast(s, sep) ==
    CHOOSE i \in Occurrences(s, sep) : \A j \in Occurrences(s, sep) : j <= i

\* The position s.split(sep, 1) cuts at: the first occurrence
Find(s, sep) ==
    CHOOSE i \in Occurrences(s, sep) : \A j \in Occurrences(s, sep) : i <= j

\* line 240: s.split(sep, 1), for an s that contains sep
Split(s, sep) ==
    << SubSeq(s, 1, Find(s, sep) - 1),
       SubSeq(s, Find(s, sep) + Len(sep), Len(s)) >>

RECURSIVE LStrip(_)
LStrip(s) == IF s # << >> /\ Head(s) = " " THEN LStrip(Tail(s)) ELSE s

RECURSIVE RStrip(_)
RStrip(s) ==
    IF s # << >> /\ s[Len(s)] = " " THEN RStrip(SubSeq(s, 1, Len(s) - 1)) ELSE s

\* lines 241-242: str.strip()
Strip(s) == RStrip(LStrip(s))

\* format.tags of the probe's JSON output: a key is None when it is absent
NoTags == [icy_title |-> None, title |-> None, icy_name |-> None, icy_genre |-> None]

\* The headers a station may send: none, empty ones, a name and a genre
Stations ==
    { [icy_name |-> None, icy_genre |-> None],
      [icy_name |-> Some(<< >>), icy_genre |-> Some(<< >>)],
      [icy_name |-> Some(<< "a" >>), icy_genre |-> Some(<< "a" >>)] }

\* The tag sets a probe that ran may print
TagSets ==
    { [icy_title |-> icy_title, title |-> title, icy_name |-> station.icy_name,
       icy_genre |-> station.icy_genre] :
          icy_title \in {None} \cup {Some(x) : x \in Strings(MaxTagLen)},
          title \in {None, Some(<< "a" >>)},
          station \in Stations }

\* The runs of ffprobe that fail, lines 220-227: the probe times out, cannot
\* be launched, exits with a code that is not zero, or prints what is not JSON
FailedRuns ==
    {[outcome |-> o, tags |-> NoTags] : o \in {"timeout", "oserror", "nonzero", "garbage"}}

\* How line 220 and line 227 may end: the probe fails, or prints its tags
ProbeRuns == FailedRuns \cup {[outcome |-> "ok", tags |-> tags] : tags \in TagSets}

\* lines 231-256: the record built from the tags
ParseTags(format_tags) ==
    LET icy_title == Get(format_tags.icy_title, Get(format_tags.title, << >>))
        icy_name == Get(format_tags.icy_name, << >>)
        icy_genre == Get(format_tags.icy_genre, << >>)
        parts == Split(icy_title, Separator)
    IN  IF icy_title = << >>
        THEN None
        ELSE Some([ artist |-> IF In(Separator, icy_title) THEN Strip(parts[1])
                               ELSE IF icy_name # << >> THEN icy_name ELSE Unknown,
                    title |-> IF In(Separator, icy_title) THEN Strip(parts[2])
                              ELSE icy_title,
                    show |-> IF icy_name # << >> THEN icy_name ELSE LiveStream,
                    genre |-> icy_genre,
                    source |-> "icy_metadata" ])

\* _fetch_icy_metadata, lines 210-263
FetchIcyMetadata(run) ==
    IF run.outcome = "ok" THEN ParseTags(run.tags) ELSE None

\* What _fetch_icy_metadata may return for a stream in an update: what it
\* returns for a run that failed, or the record parsed from the tag
\* "Burial - Archangel" of a station that sends no name.
ProbeReturns ==
    {FetchIcyMetadata(run) : run \in FailedRuns}
        \cup {Some([ artist |-> "Burial", title |-> "Archangel",
                     show |-> "Live Stream", location |-> None,
                     genre |-> Some(""), source |-> "icy_metadata" ])}

\* No probe is in progress
ProbeIdle ==
    /\ ffprobe = [outcome |-> "none", tags |-> NoTags]
    /\ probe_pc = "idle"
    /\ probe_result = None

\* _fetch_icy_metadata was called and ffprobe is about to run
ProbeCalled ==
    /\ ffprobe \in ProbeRuns
    /\ probe_pc = "run"
    /\ probe_result = None

(***************************************************************************)
(* Configuration: get_config_path                                          *)
(***************************************************************************)
\* A path is a directory and a file name.  platform_dir is what
\* get_platform_config_dir returns, "app" the directory of config.py.
Join(dir, name) == << dir, name >>
platform_dir == "config"
WorkingDirs == {"work", platform_dir}

\* The strings --config and RADIO_GAGA_CONFIG may hold: nothing, the empty
\* string, a relative name, a name under the home directory, an absolute one
CliArgs == {None, Some(""), Some("radio.json"), Some("/etc/radio.yaml")}
EnvValues == {None, Some(""), Some("radio.yaml"), Some("~/my.yaml")}

\* Path(arg).expanduser().resolve(): a relative name is taken from the
\* working directory, ~ is the home directory
Resolve(arg, cwd) ==
    CASE arg = "radio.json" -> Join(cwd, "radio.json")
      [] arg = "radio.yaml" -> Join(cwd, "radio.yaml")
      [] arg = "~/my.yaml" -> Join("home", "my.yaml")
      [] arg = "/etc/radio.yaml" -> Join("etc", "radio.yaml")

\* The files that may exist
AllFiles ==
    { Join("etc", "radio.yaml"), Join("home", "my.yaml"),
      Join(platform_dir, "radio.yaml"), Join(platform_dir, "radio.json"),
      Join("work", "radio.yaml"), Join("work", "radio.json"),
      Join("app", "radio.yaml") }

\* get_packaged_config_path, lines 170-178
PackagedConfigPath == Join("app", "radio.yaml")

Found(path) == [kind |-> "path", path |-> Some(path), search_paths |-> << >>]
ConfigurationError(search_paths) ==
    [kind |-> "ConfigurationError", path |-> None, search_paths |-> search_paths]
NoConfigResult == [kind |-> "none", path |-> None, search_paths |-> << >>]

\* lines 264-291: the fixed locations, after the two the caller names
RECURSIVE SearchFixed(_, _, _)
SearchFixed(fixed, search_paths, files) ==
    IF fixed = << >>
    THEN ConfigurationError(search_paths)
    ELSE IF Head(fixed) \in files
         THEN Found(Head(fixed))
         ELSE SearchFixed(Tail(fixed), search_paths, files)

\* GetConfigPath with radio.json looked for before radio.yaml.
GetConfigPathJsonFirst(cli_arg, env_config, cwd, files) ==
    LET fixed == << Join(platform_dir, "radio.json"), Join(platform_dir, "radio.yaml"),
                    Join(cwd, "radio.json"), Join(cwd, "radio.yaml"),
                    PackagedConfigPath >>
        named == (IF Get(cli_arg, "") # "" THEN << Resolve(Val(cli_arg), cwd) >> ELSE << >>)
                 \o (IF Get(env_config, "") # "" THEN << Resolve(Val(env_config), cwd) >> ELSE << >>)
    IN  SearchFixed(named \o fixed, named \o fixed, files)

\* get_config_path, lines 244-293
GetConfigPath(cli_arg, env_config, cwd, files) ==
    LET cli_path == Resolve(Val(cli_arg), cwd)
        env_path == Resolve(Val(env_config), cwd)
        cli_paths == IF Get(cli_arg, "") # "" THEN << cli_path >> ELSE << >>
        env_paths == IF Get(env_config, "") # "" THEN << env_path >> ELSE << >>
        fixed == << Join(platform_dir, "radio.yaml"), Join(platform_dir, "radio.json"),
                    Join(cwd, "radio.yaml"), Join(cwd, "radio.json"),
                    PackagedConfigPath >>
    IN  IF Get(cli_arg, "") # "" /\ cli_path \in files
        THEN Found(cli_path)
        ELSE IF Get(env_config, "") # "" /\ env_path \in files
             THEN Found(env_path)
             ELSE SearchFixed(fixed, cli_paths \o env_paths \o fixed, files)

\* get_config_path is not being called
ConfigIdle ==
    /\ config_call = [cli_arg |-> None, env_config |-> None, cwd |-> "work", files |-> {}]
    /\ config_pc = "idle"
    /\ config_result = NoConfigResult

\* get_config_path was called with some argument, in some environment
ConfigCalled ==
    /\ config_call \in [cli_arg : CliArgs, env_config : EnvValues,
                         cwd : WorkingDirs, files : SUBSET AllFiles]
    /\ config_pc = "run"
    /\ config_result = NoConfigResult

(***************************************************************************)
(* The Metadata Cache: the lookup in the primary payload on its own        *)
(***************************************************************************)
\* The names a stream may be configured with, and the payloads it may meet:
\* those a fetch returns and one whose channels carry other names.
MatchNames == {"NTS1", "nts1", "NTS2", "nts2", "NTS 1", "Other"}
MatchPayloads == PayloadIds \cup {"other", "none"}

NoMatchResult == [raised |-> FALSE, track_info |-> None]

\* _get_track_from_nts is not being called
MatchIdle ==
    /\ match_call = [stream_name |-> "NTS1", nts |-> "none"]
    /\ match_pc = "idle"
    /\ match_result = NoMatchResult

\* _get_track_from_nts was called for some name with some payload
MatchCalled ==
    /\ match_call \in [stream_name : MatchNames, nts : MatchPayloads]
    /\ match_pc = "run"
    /\ match_result = NoMatchResult

\* NowPlayingFetcher.__init__, lines 35-42
FetcherNew ==
    /\ running = FALSE
    /\ thread = None
    /\ spawned = 0
    /\ th = [t \in Tids |-> NoThread]
    /\ cache = [n \in QueryNames |-> None]
    /\ lock = None
    /\ api_error_shown = FALSE
    /\ timers = 0
    /\ windowToasts = 0
    /\ windowFails = 0
    /\ clock = 0
    /\ query = None
    /\ returned = NothingReturned
    /\ shared = {}
    /\ joined = "none"
    /\ wasRunning = FALSE

\* StreamManager.__init__, lines 36-37: the fetcher is built and started
FetcherStarted ==
    /\ running = TRUE
    /\ thread = Some(1)
    /\ spawned = 1
    /\ th = [t \in Tids |-> IF t = 1 THEN [NoThread EXCEPT !.pc = "top"] ELSE NoThread]
    /\ cache = [n \in QueryNames |-> None]
    /\ lock = None
    /\ api_error_shown = FALSE
    /\ timers = 0
    /\ windowToasts = 0
    /\ windowFails = 0
    /\ clock = 0
    /\ query = None
    /\ returned = NothingReturned
    /\ shared = {}
    /\ joined = "none"
    /\ wasRunning = FALSE

\* StreamManager.__init__, lines 30-33
SupervisorNew ==
    /\ current_process = None
    /\ current_stream_id = None
    /\ toast_callback \in BOOLEAN
    /\ alive = {}
    /\ nextPid = 1
    /\ pc = "idle"
    /\ stack = << >>
    /\ op = [name |-> "init", arg |-> None]
    /\ prev = [name |-> "init", arg |-> None, result |-> "none", process |-> None]
    /\ pre = [process |-> None, stream_id |-> None]
    /\ result = "none"
    /\ stopRet = "none"
    /\ events = << >>
    /\ toasts = << >>
    /\ snapshot = EmptySnapshot

\* A StreamManager after construction
Init == SupervisorNew /\ FetcherStarted /\ ProbeIdle /\ ConfigIdle /\ MatchIdle

\* A NowPlayingFetcher after construction, with no StreamManager around it
CacheInit == SupervisorNew /\ FetcherNew /\ ProbeIdle /\ ConfigIdle /\ MatchIdle

(***************************************************************************)
(* The caller: one top-level call at a time.                               *)
(***************************************************************************)
Call(name, arg, entry) ==
    /\ pc = "idle"
    /\ pc' = entry
    /\ stack' = << >>
    /\ prev' = [name |-> op.name, arg |-> op.arg, result |-> result,
                 process |-> pre.process]
    /\ op' = [name |-> name, arg |-> arg]
    /\ pre' = [process |-> current_process, stream_id |-> current_stream_id]
    /\ result' = "none"
    /\ stopRet' = "none"
    /\ events' = << >>
    /\ toasts' = << >>
    /\ snapshot' = EmptySnapshot
    /\ UNCHANGED << fields, world, toast_callback, probeVars, configVars, matchVars >>

CallPlay(id) ==
    nextPid <= MaxProcs /\ Call("play", Some(id), "play") /\ UNCHANGED cacheVars
CallSwitch(id) ==
    nextPid <= MaxProcs /\ Call("switch", Some(id), "switch") /\ UNCHANGED cacheVars
CallStop == Call("stop", None, "stop") /\ UNCHANGED cacheVars
CallStatus == Call("status", None, "status") /\ UNCHANGED cacheVars

\* A method returns r: to its caller's next position, or to the UI loop.
Return(r) ==
    IF stack = << >>
    THEN pc' = "idle" /\ result' = r /\ stack' = stack
    ELSE pc' = Head(stack) /\ stack' = Tail(stack) /\ result' = result

stream_id == Val(op.arg)

(***************************************************************************)
(* play(stream_id)                                                         *)
(***************************************************************************)
\* lines 49-58: the id check, then stop() if a handle is held
PlayEntry ==
    /\ pc = "play"
    /\ IF stream_id \notin DOMAIN streams
       THEN Return("False")
       ELSE IF current_process # None
            THEN pc' = "stop" /\ stack' = << "play_launch" >> \o stack
                 /\ result' = result
            ELSE pc' = "play_launch" /\ UNCHANGED << stack, result >>
    /\ UNCHANGED << fields, world, frame, stopRet, events, toasts, snapshot >>

\* LaunchOk without line 74: the handle is kept, the id is not recorded.
LaunchOkNoId ==
    /\ current_process' = Some(nextPid)
    /\ current_stream_id' = current_stream_id
    /\ alive' = alive \cup {nextPid}
    /\ nextPid' = nextPid + 1
    /\ events' = Append(events, Ev("LAUNCH", nextPid))
    /\ toasts' = toasts
    /\ Return("True")

\* lines 62-76: Popen succeeded
LaunchOk ==
    /\ current_process' = Some(nextPid)
    /\ current_stream_id' = Some(stream_id)
    /\ alive' = alive \cup {nextPid}
    /\ nextPid' = nextPid + 1
    /\ events' = Append(events, Ev("LAUNCH", nextPid))
    /\ toasts' = toasts
    /\ Return("True")

\* LaunchFailed with the toast_callback call left out.
LaunchFailedSilent(msg) ==
    /\ events' = Append(events, Ev("LAUNCH_FAIL", 0))
    /\ toasts' = toasts
    /\ Return("False")
    /\ UNCHANGED << fields, world >>

\* lines 78-89: Popen raised; msg is the toast of the except clause taken
LaunchFailed(msg) ==
    /\ events' = Append(events, Ev("LAUNCH_FAIL", 0))
    /\ toasts' = IF toast_callback THEN Append(toasts, msg) ELSE toasts
    /\ Return("False")
    /\ UNCHANGED << fields, world >>

\* lines 60-89
PlayLaunch ==
    /\ pc = "play_launch"
    /\ \/ LaunchOk
       \/ LaunchFailed("FFplay not found")
       \/ LaunchFailed("Stream launch failed")
    /\ UNCHANGED << frame, stopRet, snapshot >>

(***************************************************************************)
(* stop()                                                                  *)
(***************************************************************************)
\* StopEntry reporting success when nothing is playing.
StopEntryReturnsTrue ==
    /\ pc = "stop"
    /\ IF current_process = None
       THEN stopRet' = "True" /\ Return("True")
       ELSE pc' = "stop_term" /\ UNCHANGED << stack, result, stopRet >>
    /\ UNCHANGED << fields, world, frame, events, toasts, snapshot >>

\* lines 98-100
StopEntry ==
    /\ pc = "stop"
    /\ IF current_process = None
       THEN stopRet' = "False" /\ Return("False")
       ELSE pc' = "stop_term" /\ UNCHANGED << stack, result, stopRet >>
    /\ UNCHANGED << fields, world, frame, events, toasts, snapshot >>

\* An exception out of a teardown system call: control goes to line 126.
TeardownRaises ==
    /\ pc' = "stop_except"
    /\ events' = Append(events, Ev("EXC", Val(current_process)))

\* lines 104-108: SIGTERM to the process group
StopTerm ==
    /\ pc = "stop_term"
    /\ \/ /\ pc' = "stop_wait"
          /\ events' = Append(events, Ev("TERM", Val(current_process)))
       \/ TeardownRaises
    /\ UNCHANGED << fields, world, frame, stack, result, stopRet, toasts, snapshot >>

\* StopWait taking TimeoutExpired for the end of the teardown.
StopWaitNoEscalation ==
    /\ pc = "stop_wait"
    /\ IF Val(current_process) \in alive
       THEN /\ pc' = "stop_done"
            /\ events' = Append(events, Ev("TIMEOUT", Val(current_process)))
       ELSE /\ pc' = "stop_done"
            /\ events' = Append(events, Ev("WAITED", Val(current_process)))
    /\ UNCHANGED << fields, world, frame, stack, result, stopRet, toasts, snapshot >>

\* lines 111-113: wait(timeout=5)
StopWait ==
    /\ pc = "stop_wait"
    /\ IF Val(current_process) \in alive
       THEN /\ pc' = "stop_kill"
            /\ events' = Append(events, Ev("TIMEOUT", Val(current_process)))
       ELSE /\ pc' = "stop_done"
            /\ events' = Append(events, Ev("WAITED", Val(current_process)))
    /\ UNCHANGED << fields, world, frame, stack, result, stopRet, toasts, snapshot >>

\* lines 115-118: SIGKILL to the process group
StopKill ==
    /\ pc = "stop_kill"
    /\ \/ /\ pc' = "stop_wait2"
          /\ events' = Append(events, Ev("KILL", Val(current_process)))
       \/ TeardownRaises
    /\ UNCHANGED << fields, world, frame, stack, result, stopRet, toasts, snapshot >>

\* line 119: wait() with no timeout returns once the process has exited
StopWait2 ==
    /\ pc = "stop_wait2"
    /\ Val(current_process) \notin alive
    /\ pc' = "stop_done"
    /\ events' = Append(events, Ev("WAITED", Val(current_process)))
    /\ UNCHANGED << fields, world, frame, stack, result, stopRet, toasts, snapshot >>

\* StopDone without line 123: the id survives the handle.
StopDoneKeepsId ==
    /\ pc = "stop_done"
    /\ current_process' = None
    /\ current_stream_id' = current_stream_id
    /\ stopRet' = "True"
    /\ Return("True")
    /\ UNCHANGED << world, frame, events, toasts, snapshot >>

\* lines 121-124
StopDone ==
    /\ pc = "stop_done"
    /\ current_process' = None
    /\ current_stream_id' = None
    /\ stopRet' = "True"
    /\ Return("True")
    /\ UNCHANGED << world, frame, events, toasts, snapshot >>

\* StopExcept without lines 129-130: the except clause only reports.
StopExceptNoCleanup ==
    /\ pc = "stop_except"
    /\ UNCHANGED fields
    /\ stopRet' = "False"
    /\ Return("False")
    /\ UNCHANGED << world, frame, events, toasts, snapshot >>

\* lines 126-131
StopExcept ==
    /\ pc = "stop_except"
    /\ current_process' = None
    /\ current_stream_id' = None
    /\ stopRet' = "False"
    /\ Return("False")
    /\ UNCHANGED << world, frame, events, toasts, snapshot >>

(***************************************************************************)
(* switch(stream_id)                                                       *)
(***************************************************************************)
\* SwitchEntry without lines 147-149: every switch restarts.
SwitchEntryAlwaysRestarts ==
    /\ pc = "switch"
    /\ IF stream_id \notin DOMAIN streams
       THEN Return("False")
       ELSE pc' = "stop" /\ stack' = << "switch_play" >> \o stack
            /\ result' = result
    /\ UNCHANGED << fields, world, frame, stopRet, events, toasts, snapshot >>

\* SwitchEntry without line 152: play(stream_id) is called at once.
SwitchEntryNoStop ==
    /\ pc = "switch"
    /\ IF stream_id \notin DOMAIN streams
       THEN Return("False")
       ELSE IF current_stream_id = Some(stream_id)
            THEN Return("True")
            ELSE pc' = "play" /\ UNCHANGED << stack, result >>
    /\ UNCHANGED << fields, world, frame, stopRet, events, toasts, snapshot >>

\* SwitchEntry without lines 143-145: an unknown id reaches the stop().
SwitchEntryNoIdCheck ==
    /\ pc = "switch"
    /\ IF current_stream_id = Some(stream_id)
       THEN Return("True")
       ELSE pc' = "stop" /\ stack' = << "switch_play" >> \o stack
            /\ result' = result
    /\ UNCHANGED << fields, world, frame, stopRet, events, toasts, snapshot >>

\* lines 143-152
SwitchEntry ==
    /\ pc = "switch"
    /\ IF stream_id \notin DOMAIN streams
       THEN Return("False")
       ELSE IF current_stream_id = Some(stream_id)
            THEN Return("True")
            ELSE pc' = "stop" /\ stack' = << "switch_play" >> \o stack
                 /\ result' = result
    /\ UNCHANGED << fields, world, frame, stopRet, events, toasts, snapshot >>

\* line 153: return self.play(stream_id)
SwitchPlay ==
    /\ pc = "switch_play"
    /\ pc' = "play"
    /\ UNCHANGED << fields, world, frame, stack, result, stopRet, events, toasts,
                    snapshot >>

(***************************************************************************)
(* status()                                                                *)
(***************************************************************************)
\* Polled without lines 180-181: an exited process is noticed, not cleaned up.
PolledNoCleanup(proc, id, live) ==
    [process |-> proc, stream_id |-> id]

\* lines 171-181: poll() and the clean-up of a handle whose process has exited
Polled(proc, id, live) ==
    IF proc # None /\ Val(proc) \notin live
    THEN [process |-> None, stream_id |-> None]
    ELSE [process |-> proc, stream_id |-> id]

\* lines 162-189
SnapshotOf(proc, id, live) ==
    LET after == Polled(proc, id, live)
        playing == proc # None /\ Val(proc) \in live
        known == after.stream_id # None
    IN  [ is_playing |-> playing,
          current_stream_id |-> after.stream_id,
          current_stream_name |->
              IF known THEN Some(streams[Val(after.stream_id)].name) ELSE None,
          current_stream_url |->
              IF known THEN Some(streams[Val(after.stream_id)].url) ELSE None,
          process_alive |-> playing,
          available_streams |-> Len(ConfiguredStreams) ]

Status ==
    /\ pc = "status"
    /\ current_process' = Polled(current_process, current_stream_id, alive).process
    /\ current_stream_id' = Polled(current_process, current_stream_id, alive).stream_id
    /\ snapshot' = SnapshotOf(current_process, current_stream_id, alive)
    /\ Return("True")
    /\ UNCHANGED << world, frame, stopRet, events, toasts >>

(***************************************************************************)
(* The decoder processes: any of them may exit at any moment (the stream   *)
(* ended, the URL was bad, or a signal sent to it took effect).            *)
(***************************************************************************)
ProcExit(p) ==
    /\ p \in alive
    /\ alive' = alive \ {p}
    /\ UNCHANGED << fields, toast_callback, nextPid, pc, stack, op, prev, pre,
                    result, stopRet, events, toasts, snapshot, cacheVars,
                    probeVars, configVars, matchVars >>

(***************************************************************************)
(* The Metadata Cache: the update code, run by a polling loop or by the    *)
(* caller inside force_update                                              *)
(***************************************************************************)
IsAlive(t) == th[t].pc \notin {"none", "exited"}

\* What _fetch_nts_api may meet: a decoded payload, a RequestException
\* (lines 131-141), or any other exception (lines 142-144).
FetchOutcomes == PayloadIds \cup {"RequestException", "Exception"}

\* Targets without the branch of line 321: every round is over all streams.
TargetsAll(t) == [i \in 1 .. Len(ConfiguredStreams) |-> StreamAt(i).name]

\* The names one round updates, in the order of self.streams
Targets(t) ==
    IF th[t].only = None
    THEN [i \in 1 .. Len(ConfiguredStreams) |-> StreamAt(i).name]
    ELSE << Val(th[t].only) >>

\* Top with "while True" at line 74: the flag is not looked at.
TopIgnoresFlag(t) ==
    /\ th[t].pc = "top"
    /\ clock < MaxUpdates
    /\ th' = [th EXCEPT ![t].pc = "fetch"]
    /\ clock' = clock + 1
    /\ UNCHANGED << running, thread, spawned, cache, lock, api_error_shown, timers,
                    windowToasts, windowFails, query, returned, shared, joined,
                    wasRunning >>

\* line 74: while self.running
Top(t) ==
    /\ th[t].pc = "top"
    /\ IF running
       THEN /\ clock < MaxUpdates
            /\ th' = [th EXCEPT ![t].pc = "fetch"]
            /\ clock' = clock + 1
       ELSE /\ th' = [th EXCEPT ![t].pc = "exited"]
            /\ clock' = clock
    /\ UNCHANGED << running, thread, spawned, cache, lock, api_error_shown, timers,
                    windowToasts, windowFails, query, returned, shared, joined, wasRunning >>

\* lines 126-144 up to the test of line 136
Fetch(t) ==
    /\ th[t].pc = "fetch"
    /\ \E outcome \in FetchOutcomes :
         /\ th' = [th EXCEPT
                     ![t].nts = IF outcome \in PayloadIds THEN outcome ELSE "none",
                     ![t].pc = IF /\ outcome = "RequestException"
                                  /\ ~api_error_shown /\ toast_callback
                               THEN "notify" ELSE "lock"]
         /\ windowFails' = IF outcome = "RequestException"
                           THEN windowFails + 1 ELSE windowFails
    /\ UNCHANGED << running, thread, spawned, cache, lock, api_error_shown, timers,
                    windowToasts, clock, query, returned, shared, joined, wasRunning >>

\* Notify with line 139 left out: the flag is never set.
NotifyNoFlag(t) ==
    /\ th[t].pc = "notify"
    /\ th' = [th EXCEPT ![t].pc = "lock"]
    /\ toasts' = Append(toasts, "API error - continuing")
    /\ windowToasts' = windowToasts + 1
    /\ timers' = timers + 1
    /\ UNCHANGED << running, thread, spawned, cache, lock, api_error_shown,
                    windowFails, clock, query, returned, shared, joined, wasRunning >>

\* lines 137-140: the toast, the flag, the Timer
Notify(t) ==
    /\ th[t].pc = "notify"
    /\ th' = [th EXCEPT ![t].pc = "lock"]
    /\ toasts' = Append(toasts, "API error - continuing")
    /\ windowToasts' = windowToasts + 1
    /\ api_error_shown' = TRUE
    /\ timers' = timers + 1
    /\ UNCHANGED << running, thread, spawned, cache, lock, windowFails, clock,
                    query, returned, shared, joined, wasRunning >>

\* TimerFire with a lambda that leaves the flag as it is.
TimerFireKeepsFlag ==
    /\ timers > 0
    /\ timers' = timers - 1
    /\ windowToasts' = 0
    /\ windowFails' = 0
    /\ UNCHANGED << running, thread, spawned, th, cache, lock, api_error_shown,
                    clock, query, returned, shared, joined, wasRunning >>

\* line 140: a Timer thread runs its lambda, 30 seconds after it was started
TimerFire ==
    /\ timers > 0
    /\ timers' = timers - 1
    /\ api_error_shown' = FALSE
    /\ windowToasts' = 0
    /\ windowFails' = 0
    /\ UNCHANGED << running, thread, spawned, th, cache, lock, clock, query,
                    returned, shared, joined, wasRunning >>

\* Acquire without "with self.lock": the update starts whoever holds the lock.
AcquireNoLock(t) ==
    /\ th[t].pc = "lock"
    /\ lock' = Some(t)
    /\ th' = [th EXCEPT ![t].pc = "update", ![t].idx = 1]
    /\ UNCHANGED << running, thread, spawned, cache, api_error_shown, timers,
                    windowToasts, windowFails, clock, query, returned, shared,
                    joined, wasRunning >>

\* lines 91 and 322: with self.lock
Acquire(t) ==
    /\ th[t].pc = "lock"
    /\ lock = None
    /\ lock' = Some(t)
    /\ th' = [th EXCEPT ![t].pc = "update", ![t].idx = 1]
    /\ UNCHANGED << running, thread, spawned, cache, api_error_shown, timers,
                    windowToasts, windowFails, clock, query, returned, shared,
                    joined, wasRunning >>

\* Written without the "or self._get_unknown_track()" of lines 105 and 334.
WrittenNoDefault(t, name, icy_info) ==
    IF NtsRaises(th[t].nts)
    THEN IF th[t].only = None THEN ErrorEntry(cache[name], clock) ELSE cache[name]
    ELSE Some([NewEntry(Resolved(name, th[t].nts, icy_info), clock)
                   EXCEPT !.track_info = Resolved(name, th[t].nts, icy_info)])

\* Written with a probe that raises when it fails: the update of the stream
\* takes the path of an exception.
WrittenProbeRaises(t, name, icy_info) ==
    IF \/ NtsRaises(th[t].nts)
       \/ NeedsProbe(TrackFromNts(name, th[t].nts)) /\ icy_info = None
    THEN IF th[t].only = None THEN ErrorEntry(cache[name], clock) ELSE cache[name]
    ELSE Some(NewEntry(Resolved(name, th[t].nts, icy_info), clock))

\* The entry one stream gets, lines 93-120 (a round over all streams) and
\* lines 324-337 (one named stream, where the exception leaves the block).
Written(t, name, icy_info) ==
    IF NtsRaises(th[t].nts)
    THEN IF th[t].only = None THEN ErrorEntry(cache[name], clock) ELSE cache[name]
    ELSE Some(NewEntry(Resolved(name, th[t].nts, icy_info), clock))

\* The probes line 99 (329) may see: none when the probe is not called
Probes(t, name) ==
    IF ~NtsRaises(th[t].nts) /\ NeedsProbe(TrackFromNts(name, th[t].nts))
    THEN ProbeReturns ELSE {None}

\* Leave without the handlers of lines 78-79 and 342-343: an exception met
\* in the round ends the loop, and reaches the caller of force_update.
LeaveRaises(t) ==
    /\ lock' = None
    /\ IF t = 0
       THEN /\ th' = [th EXCEPT ![t] = NoThread]
            /\ pc' = "idle"
            /\ result' = IF NtsRaises(th[t].nts) THEN "raised" ELSE "None"
       ELSE /\ th' = [th EXCEPT
                       ![t].pc = IF NtsRaises(th[t].nts) THEN "exited" ELSE "sleep",
                       ![t].idx = 0, ![t].nts = "none"]
            /\ UNCHANGED << pc, result >>

\* Leave with a lock that an exception does not release.
LeaveKeepsLock(t) ==
    /\ lock' = IF NtsRaises(th[t].nts) THEN lock ELSE None
    /\ IF t = 0
       THEN /\ th' = [th EXCEPT ![t] = NoThread]
            /\ pc' = "idle" /\ result' = "None"
       ELSE /\ th' = [th EXCEPT ![t].pc = "sleep", ![t].idx = 0, ![t].nts = "none"]
            /\ UNCHANGED << pc, result >>

\* after the last stream the lock is released; the loop goes to sleep, the
\* caller's force_update returns
Leave(t) ==
    /\ lock' = None
    /\ IF t = 0
       THEN /\ th' = [th EXCEPT ![t] = NoThread]
            /\ pc' = "idle" /\ result' = "None"
       ELSE /\ th' = [th EXCEPT ![t].pc = "sleep", ![t].idx = 0, ![t].nts = "none"]
            /\ UNCHANGED << pc, result >>

\* one iteration of the for loop of line 92, or the body of lines 322-337
Update(t) ==
    /\ th[t].pc = "update"
    /\ lock = Some(t)
    /\ LET name == Targets(t)[th[t].idx]
       IN  /\ \E icy_info \in Probes(t, name) :
                cache' = [cache EXCEPT ![name] = Written(t, name, icy_info)]
           /\ shared' = IF NtsRaises(th[t].nts) THEN shared ELSE shared \ {name}
    /\ IF th[t].idx = Len(Targets(t))
       THEN Leave(t)
       ELSE /\ th' = [th EXCEPT ![t].idx = th[t].idx + 1]
            /\ UNCHANGED << lock, pc, result >>
    /\ UNCHANGED << running, thread, spawned, api_error_shown, timers,
                    windowToasts, windowFails, clock, query, returned, joined, wasRunning >>

\* lines 81-85: the ticks of one second, left early when the flag is cleared
Sleep(t) ==
    /\ th[t].pc = "sleep"
    /\ th' = [th EXCEPT ![t].pc = "top"]
    /\ UNCHANGED << running, thread, spawned, cache, lock, api_error_shown, timers,
                    windowToasts, windowFails, clock, query, returned, shared,
                    joined, wasRunning >>

\* What the steps of the cache's threads leave alone
supervisorVars ==
    << current_process, current_stream_id, toast_callback, alive, nextPid, stack,
       op, prev, pre, stopRet, events, snapshot, probeVars,
       configVars, matchVars >>

\* _fetch_loop, lines 73-85, run by thread t
LoopStep(t) ==
    /\ \/ (Top(t) \/ Fetch(t) \/ Acquire(t) \/ Sleep(t))
          /\ UNCHANGED << pc, result, toasts >>
       \/ Notify(t) /\ UNCHANGED << pc, result >>
       \/ Update(t) /\ UNCHANGED toasts
    /\ UNCHANGED supervisorVars

\* force_update past its argument check, lines 321-340, run by the caller
ForceStep ==
    /\ pc = "forcing"
    /\ \/ (Fetch(0) \/ Acquire(0)) /\ UNCHANGED << pc, result, toasts >>
       \/ Notify(0) /\ UNCHANGED << pc, result >>
       \/ Update(0) /\ UNCHANGED toasts
    /\ UNCHANGED supervisorVars

\* the Timer thread of line 140
TimerStep == TimerFire /\ UNCHANGED << supervisorVars, pc, result, toasts >>

(***************************************************************************)
(* The Metadata Cache: the calls of its public methods                     *)
(***************************************************************************)
\* What a step of the caller inside a cache method leaves alone
callerFrame ==
    << fields, world, op, prev, pre, toast_callback, stopRet, events, toasts,
       snapshot, probeVars, configVars, matchVars >>

\* The caller enters a method of the cache with argument q.
CacheCall(name, q, entry) ==
    /\ pc = "idle"
    /\ pc' = entry
    /\ stack' = << >>
    /\ op' = [name |-> name, arg |-> None]
    /\ result' = "none"
    /\ UNCHANGED << fields, world, toast_callback, prev, pre, stopRet, events,
                    toasts, snapshot, probeVars, configVars, matchVars >>
    /\ query' = q
    /\ returned' = NothingReturned
    /\ shared' = {}
    /\ joined' = "none"
    /\ wasRunning' = running
    /\ UNCHANGED << running, thread, spawned, th, cache, lock, api_error_shown,
                    timers, windowToasts, windowFails, clock >>

CallStart == (running \/ spawned < MaxStarts) /\ CacheCall("start", None, "cstart")
CallCacheStop == CacheCall("cache_stop", None, "cstop")
CallGet(name) == CacheCall("get_now_playing", Some(name), "get")
CallGetAll == CacheCall("get_all_now_playing", None, "get_all")
CallForce(q) == clock < MaxUpdates /\ CacheCall("force_update", q, "force")

\* CacheStart without lines 53-55: every start() spawns a loop.
CacheStartAlwaysSpawns ==
    /\ pc = "cstart"
    /\ spawned < MaxStarts
    /\ running' = TRUE
    /\ spawned' = spawned + 1
    /\ thread' = Some(spawned + 1)
    /\ th' = [th EXCEPT ![spawned + 1].pc = "top"]
    /\ Return("None")
    /\ UNCHANGED << callerFrame, cache, lock, api_error_shown, timers,
                    windowToasts, windowFails, clock, query, returned, shared,
                    joined, wasRunning >>

\* start(), lines 53-60
CacheStart ==
    /\ pc = "cstart"
    /\ IF running
       THEN UNCHANGED << running, spawned, thread, th >>
       ELSE /\ running' = TRUE
            /\ spawned' = spawned + 1
            /\ thread' = Some(spawned + 1)
            /\ th' = [th EXCEPT ![spawned + 1].pc = "top"]
    /\ Return("None")
    /\ UNCHANGED << callerFrame, cache, lock, api_error_shown, timers,
                    windowToasts, windowFails, clock, query, returned, shared,
                    joined, wasRunning >>

\* stop(), lines 64-70, up to the join
CacheStop ==
    /\ pc = "cstop"
    /\ IF ~running
       THEN Return("None") /\ running' = running
       ELSE /\ running' = FALSE
            /\ IF thread # None /\ IsAlive(Val(thread))
               THEN pc' = "cjoin" /\ UNCHANGED << stack, result >>
               ELSE Return("None")
    /\ UNCHANGED << callerFrame, thread, spawned, th, cache, lock,
                    api_error_shown, timers, windowToasts, windowFails, clock,
                    query, returned, shared, joined, wasRunning >>

\* CacheJoin with join() in place of join(timeout=5).
CacheJoinNoTimeout ==
    /\ pc = "cjoin"
    /\ ~IsAlive(Val(thread))
    /\ joined' = "exited"
    /\ Return("None")
    /\ UNCHANGED << callerFrame, running, thread, spawned, th, cache, lock,
                    api_error_shown, timers, windowToasts, windowFails, clock,
                    query, returned, shared, wasRunning >>

\* line 70: join(timeout=5) returns when the thread ends or the time is up
CacheJoin ==
    /\ pc = "cjoin"
    /\ joined' = IF IsAlive(Val(thread)) THEN "timeout" ELSE "exited"
    /\ Return("None")
    /\ UNCHANGED << callerFrame, running, thread, spawned, th, cache, lock,
                    api_error_shown, timers, windowToasts, windowFails, clock,
                    query, returned, shared, wasRunning >>

\* CacheGet with line 290 writing the unknown record into the cache.
CacheGetCreates ==
    /\ pc = "get"
    /\ lock = None
    /\ LET name == Val(query)
           cached == cache[name] # None
       IN  /\ returned' = [returned EXCEPT ![name] =
                              IF cached THEN cache[name] ELSE Some(NotCached)]
           /\ shared' = IF cached THEN {name} ELSE {}
           /\ cache' = IF ~cached
                       THEN [cache EXCEPT ![name] = Some(NotCached)] ELSE cache
    /\ Return("entry")
    /\ UNCHANGED << callerFrame, running, thread, spawned, th, lock,
                    api_error_shown, timers, windowToasts, windowFails, clock,
                    query, joined, wasRunning >>

\* get_now_playing, lines 289-297. The .copy() of line 297 makes a new outer
\* dict around the same track_info object: the name joins shared.
CacheGet ==
    /\ pc = "get"
    /\ lock = None
    /\ LET name == Val(query)
           cached == cache[name] # None
       IN  /\ returned' = [returned EXCEPT ![name] =
                              IF cached THEN cache[name] ELSE Some(NotCached)]
           /\ shared' = IF cached THEN {name} ELSE {}
    /\ Return("entry")
    /\ UNCHANGED << callerFrame, running, thread, spawned, th, cache, lock,
                    api_error_shown, timers, windowToasts, windowFails, clock,
                    query, joined, wasRunning >>

\* get_all_now_playing, lines 306-307
CacheGetAll ==
    /\ pc = "get_all"
    /\ lock = None
    /\ returned' = [n \in QueryNames |-> cache[n]]
    /\ shared' = {n \in QueryNames : cache[n] # None}
    /\ Return("map")
    /\ UNCHANGED << callerFrame, running, thread, spawned, th, cache, lock,
                    api_error_shown, timers, windowToasts, windowFails, clock,
                    query, joined, wasRunning >>

\* ForceEntry without the check of lines 316-318: any name is updated.
ForceEntryNoNameCheck ==
    /\ pc = "force"
    /\ clock < MaxUpdates
    /\ th' = [th EXCEPT ![0] = [NoThread EXCEPT !.pc = "fetch", !.only = query]]
    /\ clock' = clock + 1
    /\ pc' = "forcing"
    /\ UNCHANGED << stack, result >>
    /\ UNCHANGED << callerFrame, running, thread, spawned, cache, lock,
                    api_error_shown, timers, windowToasts, windowFails, query,
                    returned, shared, joined, wasRunning >>

\* force_update, lines 316-323: the argument check, then the update code
ForceEntry ==
    /\ pc = "force"
    /\ IF query # None /\ Val(query) \notin StreamNames
       THEN Return("None") /\ UNCHANGED << th, clock >>
       ELSE /\ clock < MaxUpdates
            /\ th' = [th EXCEPT ![0] = [NoThread EXCEPT !.pc = "fetch", !.only = query]]
            /\ clock' = clock + 1
            /\ pc' = "forcing"
            /\ UNCHANGED << stack, result >>
    /\ UNCHANGED << callerFrame, running, thread, spawned, cache, lock,
                    api_error_shown, timers, windowToasts, windowFails, query,
                    returned, shared, joined, wasRunning >>

\* A cache that is started and stopped while its loops run
LifecycleNext ==
    \/ CallStart
    \/ CallCacheStop
    \/ CacheStart
    \/ CacheStop
    \/ CacheJoin
    \/ \E t \in LoopTids : LoopStep(t)
    \/ TimerStep

LifecycleSpec == CacheInit /\ [][LifecycleNext]_vars

\* The loop the Facade started, stopped by the caller and never restarted
StopNext ==
    \/ CallCacheStop
    \/ CacheStop
    \/ CacheJoin
    \/ \E t \in LoopTids : LoopStep(t)
    \/ TimerStep

StopSpec == Init /\ [][StopNext]_vars

\* Every fetch and every probe returns, a free lock is acquired, and a Timer
\* thread that was started runs its function.
StopFair ==
    /\ StopSpec
    /\ \A t \in LoopTids : WF_vars(LoopStep(t))
    /\ WF_vars(TimerStep)

\* The loop the Facade started, polled by the UI
LoopNext ==
    \/ \E name \in QueryNames : CallGet(name)
    \/ CallGetAll
    \/ CacheGet
    \/ CacheGetAll
    \/ \E t \in LoopTids : LoopStep(t)
    \/ TimerStep

LoopSpec == Init /\ [][LoopNext]_vars

\* The loop the Facade started, with a caller that asks for NTS1 and for all
\* streams and forces an update of NTS1
LockNext ==
    \/ CallGet("NTS1")
    \/ CallGetAll
    \/ CallForce(Some("NTS1"))
    \/ CacheGet
    \/ CacheGetAll
    \/ ForceEntry
    \/ ForceStep
    \/ \E t \in LoopTids : LoopStep(t)

LockSpec == Init /\ [][LockNext]_vars

\* Every fetch and every probe returns, a free lock is acquired by a thread
\* that waits for it, and a call that was made runs on.
LockFair ==
    /\ LockSpec
    /\ \A t \in LoopTids : WF_vars(LoopStep(t))
    /\ WF_vars(ForceStep)
    /\ WF_vars(CacheGet)
    /\ WF_vars(CacheGetAll)

\* The loop the Facade started, with a caller that forces updates
RetryNext ==
    \/ \E q \in {None} \cup {Some(n) : n \in QueryNames} : CallForce(q)
    \/ ForceEntry
    \/ ForceStep
    \/ \E t \in LoopTids : LoopStep(t)
    \/ TimerStep

RetrySpec == Init /\ [][RetryNext]_vars

\* The loop the Facade started, with a caller that queries and forces updates
CacheNext ==
    \/ \E name \in QueryNames : CallGet(name)
    \/ CallGetAll
    \/ \E q \in {None} \cup {Some(n) : n \in QueryNames} : CallForce(q)
    \/ CacheGet
    \/ CacheGetAll
    \/ ForceEntry
    \/ ForceStep
    \/ \E t \in LoopTids : LoopStep(t)
    \/ TimerStep

CacheSpec == Init /\ [][CacheNext]_vars

\* _fetch_icy_metadata returns, lines 220-263
ProbeReturn ==
    /\ probe_pc = "run"
    /\ probe_pc' = "done"
    /\ probe_result' = FetchIcyMetadata(ffprobe)
    /\ UNCHANGED << ffprobe, fields, world, toast_callback, pc, stack, op, prev,
                    pre, result, stopRet, events, toasts, snapshot, cacheVars,
                    configVars, matchVars >>

\* One call of the probe, on every output ffprobe may give
ProbeNext == ProbeReturn

ProbeInit ==
    SupervisorNew /\ FetcherStarted /\ ProbeCalled /\ ConfigIdle /\ MatchIdle

ProbeSpec == ProbeInit /\ [][ProbeNext]_vars

\* _get_track_from_nts returns or raises, lines 157-198
MatchReturn ==
    /\ match_pc = "run"
    /\ match_pc' = "done"
    /\ match_result' =
          IF NtsRaises(match_call.nts)
          THEN [raised |-> TRUE, track_info |-> None]
          ELSE [raised |-> FALSE,
                track_info |-> TrackFromNts(match_call.stream_name, match_call.nts)]
    /\ UNCHANGED << match_call, fields, world, toast_callback, pc, stack, op,
                    prev, pre, result, stopRet, events, toasts, snapshot,
                    cacheVars, probeVars, configVars >>

\* One lookup, for every name and payload
MatchNext == MatchReturn

MatchInit ==
    SupervisorNew /\ FetcherStarted /\ ProbeIdle /\ ConfigIdle /\ MatchCalled

MatchSpec == MatchInit /\ [][MatchNext]_vars

\* get_config_path returns or raises
ConfigReturn ==
    /\ config_pc = "run"
    /\ config_pc' = "done"
    /\ config_result' = GetConfigPath(config_call.cli_arg, config_call.env_config,
                                      config_call.cwd, config_call.files)
    /\ UNCHANGED << config_call, fields, world, toast_callback, pc, stack, op,
                    prev, pre, result, stopRet, events, toasts, snapshot,
                    cacheVars, probeVars, matchVars >>

\* One call of get_config_path, for every argument and environment
ConfigNext == ConfigReturn

ConfigInit ==
    SupervisorNew /\ FetcherStarted /\ ProbeIdle /\ ConfigCalled /\ MatchIdle

ConfigSpec == ConfigInit /\ [][ConfigNext]_vars

Next ==
    \/ \E id \in StreamIdInputs : CallPlay(id)
    \/ \E id \in StreamIdInputs : CallSwitch(id)
    \/ CallStop
    \/ CallStatus
    \/ PlayEntry
    \/ PlayLaunch
    \/ StopEntry
    \/ StopTerm
    \/ StopWait
    \/ StopKill
    \/ StopWait2
    \/ StopDone
    \/ StopExcept
    \/ SwitchEntry
    \/ SwitchPlay
    \/ Status
    \/ \E p \in Pids : ProcExit(p)

Spec == Init /\ [][Next]_vars

(***************************************************************************)
(* Properties of the Process Supervisor                                    *)
(***************************************************************************)
AtRest == pc = "idle"
Completed(name) == AtRest /\ op.name = name
AfterStop == pc \in {"switch_play", "play", "play_launch"} /\ stopRet # "none"
StatusAfter(name) == Completed("status") /\ prev.name = name
Running(h) == h # None /\ Val(h) \in alive

\* C1: at every instant at most one decoder process launched by the
\* supervisor is alive, whatever sequence of play, stop, switch and status
\* ran, a stop() whose teardown raised included.
C1_AtMostOneDecoderAlive == Cardinality(alive) <= 1

\* C2: whenever an operation has completed (a nested stop() included),
\* current_stream_id is present if and only if the process handle is.
C2_IdIffHandle ==
    pc \in {"idle", "play_launch", "switch_play"}
        => ((current_stream_id # None) <=> (current_process # None))

\* A switch that tore the old process down and launched a new one has
\* completed, and both fields are set.
C2_Witness ==
    /\ Completed("switch") /\ result = "True"
    /\ pre.process # None /\ current_process # pre.process
    /\ current_process # None /\ current_stream_id # None

\* C3: in play(b) called while a stream is active, stop() has returned and
\* the fields are cleared before the launch, and the old and the new
\* process never run at the same time.
C3_NoTwoAcrossTransition ==
    (op.name = "play" /\ pre.process # None)
        => /\ pc = "play_launch"
                => stopRet # "none" /\ current_process = None
                   /\ current_stream_id = None
           /\ ~(/\ Running(pre.process) /\ Running(current_process)
                /\ current_process # pre.process)

\* C4 as claimed: the status() that follows a successful play(id) reports
\* current_stream_id = id.
C4_StatusAfterPlayReportsId ==
    (StatusAfter("play") /\ prev.result = "True")
        => snapshot.current_stream_id = prev.arg

\* C4 as amended: after a successful play(id) the fields hold id and a
\* handle; the status() that follows reports id if the process was still
\* running when polled, and no stream if it had exited.
C4_PlayRecordsId ==
    /\ (Completed("play") /\ result = "True")
            => /\ Val(op.arg) \in DOMAIN streams
               /\ current_stream_id = op.arg
               /\ current_process # None
    /\ (StatusAfter("play") /\ prev.result = "True")
            => /\ pre.stream_id = prev.arg /\ pre.process # None
               /\ snapshot.is_playing => snapshot.current_stream_id = prev.arg
               /\ ~snapshot.is_playing
                    => /\ snapshot.current_stream_id = None
                       /\ ~Running(pre.process)
               /\ Running(pre.process) => snapshot.is_playing

\* status() after a successful play(id) found the process running and
\* reports id.
C4_Witness ==
    /\ StatusAfter("play") /\ prev.result = "True"
    /\ snapshot.is_playing /\ snapshot.current_stream_id = prev.arg

\* C5: when stop() has returned, with success or with failure, both fields
\* are empty; the status() that follows a stop() reports nothing playing.
C5_StopAlwaysClears ==
    /\ AfterStop
            => current_process = None /\ current_stream_id = None
    /\ Completed("stop")
            => /\ stopRet = result /\ result \in {"True", "False"}
               /\ current_process = None /\ current_stream_id = None
    /\ StatusAfter("stop")
            => /\ ~snapshot.is_playing
               /\ snapshot.current_stream_id = None
               /\ snapshot.current_stream_name = None
               /\ snapshot.current_stream_url = None

\* status() after a stop() that had a process to stop and returned failure:
\* the teardown raised.
C5_Witness ==
    /\ StatusAfter("stop") /\ prev.result = "False" /\ prev.process # None
    /\ ~snapshot.is_playing

\* C6: switch(id) with id the recorded active stream returns success, sends
\* no signal, launches nothing, and leaves both fields as they were.
C6_SwitchToActiveIsNoOp ==
    (Completed("switch") /\ pre.stream_id = op.arg)
        => /\ result = "True"
           /\ events = << >> /\ toasts = << >> /\ stopRet = "none"
           /\ current_process = pre.process
           /\ current_stream_id = pre.stream_id

\* switch(id) to the stream that is playing has completed.
C6_Witness ==
    /\ Completed("switch") /\ pre.stream_id = op.arg /\ pre.process # None
    /\ current_process = pre.process

\* C7: a failed launch makes play return failure (not raise), call the
\* Notifier, if there is one, exactly once, and leave both fields empty.
C7_LaunchFailureReported ==
    (AtRest /\ Has("LAUNCH_FAIL"))
        => /\ result = "False"
           /\ ~Has("LAUNCH")
           /\ current_process = None /\ current_stream_id = None
           /\ Len(toasts) = (IF toast_callback THEN 1 ELSE 0)
           /\ \A i \in 1 .. Len(toasts) :
                  toasts[i] \in {"FFplay not found", "Stream launch failed"}

\* play(b) tore down the active process, then the launch failed, and the
\* Notifier was told.
C7_Witness ==
    /\ Completed("play") /\ Has("LAUNCH_FAIL") /\ pre.process # None
    /\ toast_callback /\ Len(toasts) = 1 /\ result = "False"

\* C8: a status() that finds the active process exited clears both fields
\* and reports is_playing false with id, name and url absent; in every
\* snapshot is_playing is true exactly when current_stream_id is present.
C8_StatusSelfHeals ==
    /\ [](snapshot.is_playing <=> (snapshot.current_stream_id # None))
    /\ [][ (/\ pc = "status" /\ pc' = "idle"
            /\ current_process # None /\ ~Running(current_process))
           => /\ current_process' = None /\ current_stream_id' = None
              /\ ~snapshot'.is_playing
              /\ snapshot'.current_stream_id = None
              /\ snapshot'.current_stream_name = None
              /\ snapshot'.current_stream_url = None ]_vars

\* status() was called with a handle whose process had exited, and cleared it.
C8_Witness ==
    /\ Completed("status") /\ pre.process # None /\ ~Running(pre.process)
    /\ current_process = None /\ current_stream_id = None
    /\ ~snapshot.is_playing

Before(k1, k2) ==
    \A i \in 1 .. Len(events) :
        events[i].kind = k2
            => \E j \in 1 .. (i - 1) :
                   events[j].kind = k1 /\ events[j].pid = events[i].pid

\* C9: in a stop() with an active process SIGTERM is sent before anything
\* else; SIGKILL is sent only after SIGTERM and a wait that ended with the
\* process still running; stop() returns success only once a wait has seen
\* the process exited.
C9_GracefulThenForce ==
    /\ [](/\ Before("TERM", "TIMEOUT") /\ Before("TERM", "WAITED")
          /\ Before("TERM", "KILL") /\ Before("TIMEOUT", "KILL")
          /\ pc \in {"stop_wait", "stop_kill", "stop_wait2", "stop_done"}
                => Has("TERM")
          /\ stopRet = "True" => (Has("TERM") /\ Has("WAITED")))
    /\ [][ (pc = "stop_wait" /\ pc' = "stop_kill")
               => Running(current_process) ]_vars
    /\ [][ (stopRet # "True" /\ stopRet' = "True")
               => ~Running(current_process) ]_vars

\* stop() escalated to SIGKILL and then returned success.
C9_Witness ==
    /\ Completed("stop") /\ result = "True"
    /\ Has("TERM") /\ Has("TIMEOUT") /\ Has("KILL") /\ Has("WAITED")

\* C10: stop() with no handle recorded returns failure, sends no signal and
\* changes nothing.
C10_StopWhenIdleIsNoOp ==
    (Completed("stop") /\ pre.process = None)
        => /\ result = "False"
           /\ events = << >> /\ toasts = << >>
           /\ current_process = pre.process
           /\ current_stream_id = pre.stream_id

\* stop() right after a stop() that succeeded.
C10_Witness ==
    /\ Completed("stop") /\ pre.process = None
    /\ prev.name = "stop" /\ prev.result = "True"
    /\ result = "False"

\* C11: play(id) and switch(id) with an id that is not configured return
\* False and leave the playback state as it was: the same handle and the
\* same current_stream_id, no process terminated, killed or launched, no
\* nested stop().
C11_UnknownIdIsNoOp ==
    (/\ pc = "idle" /\ op.name \in {"play", "switch"}
     /\ Val(op.arg) \notin DOMAIN streams)
        => /\ result = "False"
           /\ current_process = pre.process
           /\ current_stream_id = pre.stream_id
           /\ events = << >>
           /\ stopRet = "none"

\* switch() with an unknown id has returned while a decoder is playing.
C11_Witness ==
    /\ Completed("switch") /\ Val(op.arg) \notin DOMAIN streams
    /\ Running(current_process) /\ current_stream_id # None

(***************************************************************************)
(* The Facade's shutdown: StreamManager.__del__                            *)
(***************************************************************************)
CallDel == Call("__del__", None, "del") /\ UNCHANGED cacheVars

\* lines 223-224: stop() if a handle is held
DelEntry ==
    /\ pc = "del"
    /\ IF current_process # None
       THEN pc' = "stop" /\ stack' = << "del_cache" >> \o stack
       ELSE pc' = "del_cache" /\ stack' = stack
    /\ UNCHANGED << fields, world, frame, result, stopRet, events, toasts, snapshot >>

\* lines 225-226: the cache's stop(); after it the object is gone
DelCache ==
    /\ pc = "del_cache"
    /\ pc' = "cstop"
    /\ stack' = << "deleted" >> \o stack
    /\ UNCHANGED << fields, world, frame, result, stopRet, events, toasts, snapshot >>

\* A Facade that plays streams while its cache polls, and is then destroyed
FacadeNext ==
    \/ CallPlay(0)
    \/ PlayEntry
    \/ PlayLaunch
    \/ StopEntry
    \/ StopTerm
    \/ StopWait
    \/ StopKill
    \/ StopWait2
    \/ StopDone
    \/ StopExcept
    \/ \E p \in Pids : ProcExit(p)
    \/ CallDel
    \/ DelEntry
    \/ DelCache
    \/ CacheStop
    \/ CacheJoin
    \/ \E t \in LoopTids : LoopStep(t)
    \/ TimerStep

FacadeSpec == Init /\ [][FacadeNext]_vars

(***************************************************************************)
(* A caller that writes into what the queries returned                     *)
(***************************************************************************)
\* The caller's own code: it changes nothing of the program but returned
mutationFrame ==
    << supervisorVars, pc, result, toasts, running, thread, spawned, th, lock,
       api_error_shown, timers, windowToasts, windowFails, clock, query, joined,
       wasRunning >>

\* del all_now_playing[name]: the dict built at line 307 is the caller's own
MutateMap(name) ==
    /\ pc = "idle" /\ op.name = "get_all_now_playing"
    /\ returned[name] # None
    /\ returned' = [returned EXCEPT ![name] = None]
    /\ shared' = shared \ {name}
    /\ UNCHANGED << cache, mutationFrame >>

\* entry['source'] = 'caller': the .copy() of lines 297 and 307 made the
\* entry the caller's own
MutateEntry(name) ==
    /\ pc = "idle"
    /\ returned[name] # None /\ Val(returned[name]).source # "caller"
    /\ returned' = [returned EXCEPT ![name] = Some([Val(@) EXCEPT !.source = "caller"])]
    /\ UNCHANGED << cache, shared, mutationFrame >>

\* entry['track_info']['artist'] = 'Caller': .copy() is shallow, so for a
\* name in shared this dict is the one the cache entry refers to
MutateTrackInfo(name) ==
    /\ pc = "idle"
    /\ returned[name] # None
    /\ LET track_info == Some([Val(Val(returned[name]).track_info)
                                  EXCEPT !.artist = "Caller"])
       IN  /\ Val(returned[name]).track_info # track_info
           /\ returned' = [returned EXCEPT
                              ![name] = Some([Val(@) EXCEPT !.track_info = track_info])]
           /\ cache' = IF name \in shared
                       THEN [cache EXCEPT
                               ![name] = Some([Val(@) EXCEPT !.track_info = track_info])]
                       ELSE cache
    /\ UNCHANGED << shared, mutationFrame >>

AliasNext ==
    \/ CacheNext
    \/ \E name \in QueryNames : MutateMap(name)
    \/ \E name \in QueryNames : MutateEntry(name)
    \/ \E name \in QueryNames : MutateTrackInfo(name)

AliasSpec == Init /\ [][AliasNext]_vars

(***************************************************************************)
(* Properties of the Metadata Cache                                        *)
(***************************************************************************)
CacheCompleted(name) == pc = "idle" /\ op.name = name
LoopsAlive == {t \in LoopTids : IsAlive(t)}

\* C13: start() on a running cache spawns no second loop and changes
\* nothing, so one loop keeps writing each stream's entry once a cycle;
\* stop() on a cache that is not running changes no state of the cache.
C13_StartStopIdempotent ==
    [][ /\ (pc = "cstart" /\ running /\ pc' = "idle") => UNCHANGED cacheVars
        /\ (pc = "cstop" /\ ~running /\ pc' = "idle") => UNCHANGED cacheVars
      ]_vars

\* start() has returned on a cache that was running, and the one loop runs.
C13_Witness ==
    /\ CacheCompleted("start") /\ wasRunning
    /\ spawned = 1 /\ LoopsAlive = {1} /\ running

\* C14: after stop() on a running cache with no later start(), every loop
\* exits, provided each fetch and probe returns; a loop that finds the flag
\* cleared at the head of a cycle starts no cycle.
C14_LoopExitsAfterStop ==
    /\ (~running) ~> (LoopsAlive = {})
    /\ [][\A t \in LoopTids :
            (th[t].pc = "top" /\ ~running /\ th'[t] # th[t])
                => th'[t].pc = "exited"]_vars

\* stop() found the loop alive, gave up the join, and the loop has exited
\* since.
C14_Witness ==
    /\ CacheCompleted("cache_stop") /\ joined = "timeout"
    /\ ~running /\ spawned = 1 /\ th[1].pc = "exited"

\* C15: stop() always returns, also while the loop is blocked in a fetch or
\* in a probe with the lock held: no step of stop() waits for the lock or
\* for the loop.
C15_StopAlwaysReturns ==
    /\ pc = "cstop" => ENABLED CacheStop
    /\ pc = "cjoin" => ENABLED CacheJoin

\* stop() has returned from its join by timeout while the loop it waited
\* for is still inside the locked update.
C15_Witness ==
    /\ CacheCompleted("cache_stop") /\ joined = "timeout"
    /\ lock = thread /\ th[Val(thread)].pc = "update"

\* C16: with one thread fetching, request failures that follow one another
\* inside one 30-second window give the Notifier exactly one notification:
\* a failure leads to a notification only while no Timer is pending, that
\* is, when none was emitted in the 30 seconds before.  (A failure that is
\* not a RequestException takes lines 142-144 and notifies nobody.)
C16_OneNotificationPerWindow ==
    /\ windowToasts <= 1
    /\ \A t \in Tids : th[t].pc = "notify" => timers = 0 /\ windowToasts = 0
    /\ (toast_callback /\ windowFails >= 1 /\ \A t \in Tids : th[t].pc # "notify")
           => windowToasts = 1

\* The loop's fetch failed twice before the Timer fired, and the Notifier
\* has one message.
C16_Witness ==
    /\ windowFails >= 2 /\ windowToasts = 1 /\ timers = 1
    /\ toasts = << "API error - continuing" >>

\* C17: the throttle clears by itself: once the flag is set the Timer thread
\* clears it, with no call needed and also after stop(); and a request
\* failure met while the flag is clear leads to a new notification.
C17_ThrottleReopens ==
    /\ api_error_shown ~> ~api_error_shown
    /\ [][\A t \in Tids :
            (/\ th[t].pc = "fetch" /\ ~api_error_shown /\ toast_callback
             /\ windowFails' = windowFails + 1)
                => th'[t].pc = "notify"]_vars
    /\ \A t \in LoopTids : (th[t].pc = "notify") ~> (th[t].pc # "notify")

\* The cache was stopped, the Timer fired after the stop, and before that
\* the Notifier received a second message after a first window had closed.
C17_Witness ==
    /\ ~running /\ ~api_error_shown /\ timers = 0
    /\ Len(toasts) = 2

\* C18: get_now_playing(name) for a name that has no entry, configured or
\* not, returns the record with artist 'Unknown', title 'Unknown' and show
\* 'Live Stream', and creates no cache entry.
C18_UncachedGetReturnsUnknown ==
    [][ (/\ pc = "get" /\ pc' = "idle"
         /\ cache[Val(query)] = None)
            => /\ returned'[Val(query)] # None
               /\ Val(returned'[Val(query)]).track_info # None
               /\ LET track_info == Val(Val(returned'[Val(query)]).track_info)
                  IN  /\ track_info.artist = "Unknown"
                      /\ track_info.title = "Unknown"
                      /\ track_info.show = "Live Stream"
               /\ cache' = cache
      ]_vars

\* A configured name was asked for before its first update, while the
\* other stream already had an entry; it still has none.
C18_Witness ==
    /\ CacheCompleted("get_now_playing") /\ query = Some("NTS2")
    /\ cache["NTS2"] = None /\ cache["NTS1"] # None
    /\ returned["NTS2"] # None /\ Val(returned["NTS2"]).source = "not_cached"

HasTrack(entry) ==
    /\ entry.track_info # None
    /\ {"artist", "title", "show"} \subseteq DOMAIN Val(entry.track_info)

\* C19: every entry stored in the cache and every entry returned by
\* get_now_playing or get_all_now_playing has a track_info that is present
\* and carries artist, title and show.
C19_EntriesHaveTrackInfo ==
    /\ \A n \in QueryNames : cache[n] # None => HasTrack(Val(cache[n]))
    /\ \A n \in QueryNames : returned[n] # None => HasTrack(Val(returned[n]))

\* One entry was downgraded by a per-stream exception, and an entry of an
\* update that found no data was returned to the caller.
C19_Witness ==
    /\ cache["NTS1"] # None /\ Val(cache["NTS1"]).source = "error"
    /\ returned["NTS2"] # None /\ Val(returned["NTS2"]).source = "unavailable"
    /\ Val(returned["NTS2"]).track_info = Some(UnknownTrack)

\* C20: nothing returned by get_now_playing or get_all_now_playing shares
\* mutable state with the cache: whatever the caller writes into a returned
\* map, entry or track_info, the cache holds no value written by the caller,
\* so later queries return what the cache's own updates stored.
C20_ReturnedValuesAreDetached ==
    \A n \in QueryNames :
        cache[n] # None
            => /\ Val(cache[n]).source # "caller"
               /\ Val(Val(cache[n]).track_info).artist # "Caller"

\* C12: once the Facade's shutdown has completed, no decoder process it
\* launched is alive, no polling loop of its cache is running and no
\* throttle-reset Timer thread is pending.
C12_NothingSurvivesShutdown ==
    pc = "deleted" => alive = {} /\ LoopsAlive = {} /\ timers = 0

\* The threads inside a "with self.lock" block of the update code
InUpdate == {t \in Tids : th[t].pc = "update"}

\* C21: every read and every write of the cache map is made with the lock
\* held: a thread inside the update holds the lock, so at most one is
\* inside; the map changes only in a step of the holder; and the queries
\* read it only in a step that takes the lock while it is free.
C21_CacheAccessUnderLock ==
    /\ [](\A t \in InUpdate : lock = Some(t))
    /\ [](Cardinality(InUpdate) <= 1)
    /\ [][cache' # cache => lock # None /\ Val(lock) \in InUpdate]_vars
    /\ [][returned' \notin {returned, NothingReturned} => lock = None]_vars

\* The loop holds the lock in the middle of its round while the caller's
\* force_update has fetched and waits for the lock.
C21_Witness ==
    /\ lock = Some(1) /\ th[1].pc = "update" /\ th[1].idx = 2
    /\ th[0].pc = "lock"

\* The stream thread t works on in its next Update step
Current(t) == Targets(t)[th[t].idx]

\* Thread t takes an Update step
Updates(t) == th[t].pc = "update" /\ th'[t] # th[t]

\* The mapping rule of the docstring of _get_track_from_nts, read off the
\* payload: the explicit current tracks of the channels named for the stream
ChannelFor(stream_name) ==
    CASE stream_name = "NTS1" -> "NTS 1"
      [] stream_name = "NTS2" -> "NTS 2"
      [] OTHER -> "no channel"

ExplicitTracks(stream_name, nts) ==
    IF nts = "none" \/ Payload(nts).results = None THEN {}
    ELSE LET channels == Val(Payload(nts).results)
         IN  { Val(Val(channels[i].now).current_track) :
                 i \in { j \in 1 .. Len(channels) :
                           /\ Upper(channels[j].channel_name) = ChannelFor(stream_name)
                           /\ channels[j].now # None
                           /\ Val(channels[j].now).current_track # None } }

\* C22: when the payload has a channel matching the stream's rule with an
\* explicit current track whose artist is not 'Unknown', the update writes
\* an entry with exactly that artist and title and source 'nts_api', and
\* get_now_playing for the stream returns the entry the cache holds.
C22_PrimaryTrackIsStored ==
    [][ /\ \A t \in InUpdate : \A track \in ExplicitTracks(Current(t), th[t].nts) :
             (Updates(t) /\ track.artist \notin {None, Some("Unknown")})
                 => /\ cache'[Current(t)] # None
                    /\ LET entry == Val(cache'[Current(t)])
                       IN  /\ Val(entry.track_info).artist = Val(track.artist)
                           /\ Some(Val(entry.track_info).title) = track.title
                           /\ Val(entry.track_info).source = "nts_api"
                           /\ entry.source = "nts_api"
        /\ (pc = "get" /\ pc' = "idle" /\ cache[Val(query)] # None)
               => returned'[Val(query)] = cache[Val(query)]
      ]_vars

\* get_now_playing('NTS1') has returned the track the payload named.
C22_Witness ==
    /\ CacheCompleted("get_now_playing") /\ query = Some("NTS1")
    /\ returned["NTS1"] # None
    /\ Val(Val(returned["NTS1"]).track_info).artist = "Four Tet"
    /\ Val(Val(returned["NTS1"]).track_info).title = "Looking At Your Pager"
    /\ Val(returned["NTS1"]).source = "nts_api"

\* Thread t writes, in this step, an entry for which the probe was called
\* and gave nothing.
ProbeGaveNothing(t) ==
    /\ Updates(t) /\ ~NtsRaises(th[t].nts)
    /\ NeedsProbe(TrackFromNts(Current(t), th[t].nts))
    /\ cache'[Current(t)] # None
    /\ Val(Val(cache'[Current(t)]).track_info).source # "icy_metadata"

IsUnknownRecord(track_info) ==
    /\ track_info.artist = "Unknown"
    /\ track_info.title = "Unknown"
    /\ track_info.show = "Live Stream"

FullCycle(t) == th[t].only = None

\* C24: an exception raised while one stream is updated in a full cycle
\* does not end the cycle: the round goes on to the next stream, and when a
\* full cycle has completed every configured name has an entry.
C24_CycleSurvivesStreamException ==
    [][\A t \in InUpdate :
          (Updates(t) /\ FullCycle(t))
              => /\ cache'[Current(t)] # None
                 /\ IF th[t].idx < Len(ConfiguredStreams)
                    THEN th'[t].pc = "update" /\ th'[t].idx = th[t].idx + 1
                    ELSE \A n \in StreamNames : cache'[n] # None]_vars

\* force_update() for all streams has returned after a round in which the
\* update of every stream raised, and every stream has its entry.
C24_Witness ==
    /\ CacheCompleted("force_update") /\ query = None
    /\ \A n \in StreamNames : cache[n] # None /\ Val(cache[n]).source = "error"

C26_EveryWriteStampsTheEntry ==
    [][\A t \in InUpdate :
          (Updates(t) /\ cache'[Current(t)] # cache[Current(t)])
              => Val(cache'[Current(t)]).last_updated = Some(clock)]_vars

\* C27: no failure inside a cycle ends the loop, and force_update never
\* raises.  While the cache runs, a loop that was started stays alive; after
\* the last stream of a round, failed or not, it sleeps, from the sleep it
\* comes back to the head of the loop, and there it starts the next fetch;
\* none of these steps can block (only the lock is waited for, and the bound
\* on rounds stops the model at the head of the loop).  force_update returns
\* None whatever its round met.
C27_FailuresAreRetried ==
    /\ [](\A t \in LoopTids : (t <= spawned /\ running) => IsAlive(t))
    /\ [][\A t \in LoopTids :
            /\ (th[t].pc = "update" /\ th'[t].pc # "update") => th'[t].pc = "sleep"
            /\ (th[t].pc = "sleep" /\ th'[t] # th[t]) => th'[t].pc = "top"
            /\ (th[t].pc = "top" /\ running /\ th'[t] # th[t])
                   => th'[t].pc = "fetch"]_vars
    /\ [](\A t \in LoopTids :
            \/ ENABLED LoopStep(t)
            \/ th[t].pc \in {"none", "exited"}
            \/ th[t].pc = "lock" /\ lock # None
            \/ th[t].pc = "top" /\ clock = MaxUpdates)
    /\ [](pc = "forcing"
            => ENABLED ForceStep \/ (th[0].pc = "lock" /\ lock # None))
    /\ [](CacheCompleted("force_update") => result = "None")

\* The loop fetches again after a cycle in which the update of every stream
\* raised; no force_update was called.
C27_Witness ==
    /\ th[1].pc = "fetch" /\ clock = 2 /\ op.name = "init"
    /\ \A n \in StreamNames : cache[n] # None /\ Val(cache[n]).source = "error"

\* The names that have an entry in the cache map
Cached == {n \in QueryNames : cache[n] # None}

\* C28: no step (a cycle of the loop, force_update with or without a name,
\* get_now_playing, get_all_now_playing) takes an entry out of the cache, and
\* every name that has an entry is a configured stream name.
C28_EntriesAreNeverDeleted ==
    /\ [][Cached \subseteq Cached']_vars
    /\ [](Cached \subseteq StreamNames)

\* Both streams have an entry after the last round, and a force_update for a
\* name that is not configured has returned.
C28_Witness ==
    /\ Cached = StreamNames
    /\ CacheCompleted("force_update") /\ query = Some("Other")
    /\ clock = MaxUpdates

\* The title tag of the probe's output: icy-title, and when the stream sends
\* none the generic title; the empty string when it sends neither.
TitleTag == Get(ffprobe.tags.icy_title, Get(ffprobe.tags.title, << >>))
StationName == Get(ffprobe.tags.icy_name, << >>)

\* The probe ran, printed its tags, and _fetch_icy_metadata has returned
Probed == probe_pc = "done" /\ ffprobe.outcome = "ok"

\* ' - ' stands at position i of s and nowhere before
FirstSeparatorAt(s, i) ==
    /\ i + 2 <= Len(s)
    /\ << s[i], s[i + 1], s[i + 2] >> = << " ", "-", " " >>
    /\ \A j \in 1 .. i - 1 : << s[j], s[j + 1], s[j + 2] >> # << " ", "-", " " >>

HasSeparator(s) == \E i \in 1 .. Len(s) : FirstSeparatorAt(s, i)
TextBefore(s) == SubSeq(s, 1, (CHOOSE i \in 1 .. Len(s) : FirstSeparatorAt(s, i)) - 1)
TextAfter(s) == SubSeq(s, (CHOOSE i \in 1 .. Len(s) : FirstSeparatorAt(s, i)) + 3, Len(s))

\* t is s without the spaces at its two ends
Trimmed(s, t) ==
    /\ t = << >> \/ (t[1] # " " /\ t[Len(t)] # " ")
    /\ \E i, j \in 0 .. Len(s) :
          /\ i + j <= Len(s)
          /\ t = SubSeq(s, i + 1, Len(s) - j)
          /\ \A k \in 1 .. i : s[k] = " "
          /\ \A k \in Len(s) - j + 1 .. Len(s) : s[k] = " "

\* The artist of a title tag without ' - ': the station name, 'Unknown' when
\* it is empty or missing
StationArtist == IF StationName = << >> THEN Unknown ELSE StationName

\* C29 as stated: for a non-empty title tag that contains ' - ' the artist
\* is the text before the first ' - ' and the title everything after it; for
\* one that does not, the artist is the station-name tag ('Unknown' when it
\* is empty) and the title the raw tag; an empty or missing title tag gives
\* no probe result.
C29_TagIsCutAtFirstSeparator ==
    Probed =>
        IF TitleTag = << >>
        THEN probe_result = None
        ELSE /\ probe_result # None
             /\ IF HasSeparator(TitleTag)
                THEN /\ Val(probe_result).artist = TextBefore(TitleTag)
                     /\ Val(probe_result).title = TextAfter(TitleTag)
                ELSE /\ Val(probe_result).artist = StationArtist
                     /\ Val(probe_result).title = TitleTag

\* C29 amended: as above, but the artist and the title cut from a tag that
\* contains ' - ' are the text before and the text after the first ' - '
\* without the spaces at their ends.
C29_TagIsCutAndTrimmed ==
    Probed =>
        IF TitleTag = << >>
        THEN probe_result = None
        ELSE /\ probe_result # None
             /\ IF HasSeparator(TitleTag)
                THEN /\ Trimmed(TextBefore(TitleTag), Val(probe_result).artist)
                     /\ Trimmed(TextAfter(TitleTag), Val(probe_result).title)
                ELSE /\ Val(probe_result).artist = StationArtist
                     /\ Val(probe_result).title = TitleTag

\* The tag "a  - a" was parsed: the artist is "a", without the space that
\* stands before the ' - '.
C29_Witness ==
    /\ Probed
    /\ TitleTag = << "a", " ", " ", "-", " ", "a" >>
    /\ Val(probe_result).artist = << "a" >>
    /\ Val(probe_result).title = << "a" >>

\* C30: an update whose probe failed or timed out gives nothing to the
\* Notifier and does not take the path of an exception: the entry is written
\* with the time of the write and a source other than 'error', and the
\* thread goes on with the round.  In the cache, the only step that calls the
\* Notifier is the one that follows a failed fetch of the primary source.
C30_ProbeFailureIsSilent ==
    /\ [][\A t \in InUpdate :
            ProbeGaveNothing(t)
                => /\ toasts' = toasts
                   /\ Val(cache'[Current(t)]).source \in {"unavailable", "nts_api"}
                   /\ Val(cache'[Current(t)]).last_updated = Some(clock)
                   /\ th'[t].pc \in {"update", "sleep", "none"}
                   /\ result' # "raised"]_vars
    /\ [][toasts' # toasts
            => /\ toasts' = Append(toasts, "API error - continuing")
               /\ \E t \in Tids :
                     /\ th[t].pc = "notify" /\ th[t].nts = "none"
                     /\ th'[t].pc = "lock"]_vars

\* The fetch of the primary source gave a payload without channels, the probe
\* of both streams gave nothing, and the Notifier was never called.
C30_Witness ==
    /\ \A n \in StreamNames : cache[n] # None /\ Val(cache[n]).source = "unavailable"
    /\ toasts = << >>
    /\ toast_callback
    /\ windowFails = 0

\* What the caller of get_config_path named, resolved: nothing for an
\* argument or a variable that is missing or empty
Named(arg) == IF Get(arg, "") = "" THEN << >> ELSE << Resolve(Val(arg), config_call.cwd) >>

\* The places get_config_path is to look at, in the order of their priority
Priority ==
    Named(config_call.cli_arg) \o Named(config_call.env_config)
        \o << Join(platform_dir, "radio.yaml"), Join(platform_dir, "radio.json"),
              Join(config_call.cwd, "radio.yaml"), Join(config_call.cwd, "radio.json"),
              PackagedConfigPath >>

Exists(path) == path \in config_call.files

\* C31: get_config_path returns the first path of the priority order that
\* exists, a CLI or environment path that does not exist being passed over;
\* when none exists it raises ConfigurationError with the searched paths,
\* which are not empty.
C31_FirstExistingPathWins ==
    config_pc = "done" =>
        IF \E i \in 1 .. Len(Priority) : Exists(Priority[i])
        THEN /\ config_result.kind = "path"
             /\ \E i \in 1 .. Len(Priority) :
                   /\ config_result.path = Some(Priority[i])
                   /\ Exists(Priority[i])
                   /\ \A j \in 1 .. i - 1 : ~Exists(Priority[j])
        ELSE /\ config_result.kind = "ConfigurationError"
             /\ config_result.search_paths = Priority
             /\ config_result.search_paths # << >>

\* The CLI path and the environment path do not exist, radio.yaml is missing
\* from the platform directory, and its radio.json is returned although the
\* working directory has a radio.yaml and the package its default.
C31_Witness ==
    /\ config_pc = "done"
    /\ config_call.cli_arg = Some("/etc/radio.yaml")
    /\ config_call.env_config = Some("~/my.yaml")
    /\ config_call.cwd = "work"
    /\ config_call.files = { Join(platform_dir, "radio.json"), Join("work", "radio.yaml"),
                             PackagedConfigPath }
    /\ config_result = Found(Join(platform_dir, "radio.json"))

\* The primary payload gave thread t a track it can use for the stream it is at
Usable(track_info) == track_info # None /\ Val(track_info).artist # "Unknown"
Primary(t) == TrackFromNts(Current(t), th[t].nts)

\* The probe is called in the update thread t is about to make: what the
\* probe returns can reach the entry
ProbeInvoked(t) ==
    ENABLED (Update(t) /\ Val(Val(cache'[Current(t)]).track_info).source = "icy_metadata")

\* C32: in an update that the primary payload does not make raise, the probe
\* is called if and only if the payload gave no track for the stream or one
\* whose artist is 'Unknown'; a usable primary track is what the entry gets,
\* and a record the probe returned is stored in place of the primary one.
C32_PrimaryBeforeProbe ==
    /\ [](\A t \in InUpdate :
            ~NtsRaises(th[t].nts) => (ProbeInvoked(t) <=> ~Usable(Primary(t))))
    /\ [][\A t \in InUpdate :
            (Updates(t) /\ ~NtsRaises(th[t].nts))
                => LET entry == Val(cache'[Current(t)])
                   IN  /\ Usable(Primary(t)) => entry.track_info = Primary(t)
                       /\ Val(entry.track_info).source = "icy_metadata"
                             => /\ ~Usable(Primary(t))
                                /\ entry.track_info \in ProbeReturns
                                /\ entry.source = "icy_metadata"
                       /\ Val(entry.track_info).source # "icy_metadata"
                             => entry.track_info \in {Primary(t), Some(UnknownTrack)}]_vars

\* The payload named a track without an artist for NTS1, and the entry holds
\* the record of the probe; NTS2 keeps the show the payload named for it.
C32_Witness ==
    /\ cache["NTS1"] # None /\ cache["NTS2"] # None
    /\ Val(cache["NTS1"]).source = "icy_metadata"
    /\ Val(Val(cache["NTS1"]).track_info).artist = "Burial"
    /\ Val(cache["NTS1"]).last_updated = Some(2)
    /\ Val(cache["NTS2"]).source = "nts_api"
    /\ Val(cache["NTS2"]).last_updated = Some(1)

\* The mapping table: the channel a stream name stands for, if any
MappedChannel(stream_name) ==
    CASE Upper(stream_name) = "NTS1" -> Some("NTS 1")
      [] Upper(stream_name) = "NTS2" -> Some("NTS 2")
      [] OTHER -> None

\* The broadcasts the payload has for the channel identified as channel_name
BroadcastsOf(channel_name, nts) ==
    IF nts = "none" \/ Payload(nts).results = None THEN {}
    ELSE LET channels == Val(Payload(nts).results)
         IN  { Val(channels[i].now) :
                 i \in { j \in 1 .. Len(channels) :
                           /\ Upper(channels[j].channel_name) = channel_name
                           /\ channels[j].now # None } }

\* C33: a lookup gives primary data only to a stream whose name is NTS1 or
\* NTS2 in any case, NTS1 takes it only from a channel identified as 'NTS 1'
\* and NTS2 only from one identified as 'NTS 2'; a stream of any other name
\* gets nothing from the payload, so that the probe is called for it.
C33_MappingIsClosed ==
    (match_pc = "done" /\ ~match_result.raised) =>
        LET row == MappedChannel(match_call.stream_name)
            track_info == match_result.track_info
        IN  IF row = None
            THEN track_info = None /\ NeedsProbe(track_info)
            ELSE track_info # None =>
                   /\ Val(track_info).source = "nts_api"
                   /\ \E now \in BroadcastsOf(Val(row), match_call.nts) :
                         /\ Val(track_info).show = Get(now.broadcast_title, "Unknown Show")
                         /\ Val(track_info).location = Some(Get(now.location, ""))
                         /\ now.current_track # None =>
                               /\ Val(track_info).artist
                                     = Get(Val(now.current_track).artist, "Unknown")
                               /\ Val(track_info).title
                                     = Get(Val(now.current_track).title, "Unknown")

\* The stream 'nts2' was looked up in a payload whose first channel, of
\* another name, has a track, and got the show of the channel 'NTS 2'.
C33_Witness ==
    /\ match_pc = "done"
    /\ match_call = [stream_name |-> "nts2", nts |-> "other"]
    /\ match_result.track_info # None
    /\ Val(match_result.track_info).show = "Night Show"

\* switch(id) was called with a configured id that was not the active one
SwitchesStream ==
    /\ op.name = "switch"
    /\ stream_id \in DOMAIN streams
    /\ pre.stream_id # op.arg

\* Every event of the teardown stands before every event of the launch
TeardownBeforeLaunch ==
    \A i, j \in 1 .. Len(events) :
        (events[i].kind \in {"TERM", "KILL", "EXC"}
            /\ events[j].kind \in {"LAUNCH", "LAUNCH_FAIL"}) => i < j

\* C34: switch(id) for a configured id that is not the recorded active one
\* runs stop() to its end before play(id) begins, and returns what play
\* returned: after success the recorded stream is id, after failure nothing
\* is recorded as playing.
C34_SwitchStopsThenPlays ==
    /\ (SwitchesStream /\ pc \in {"switch_play", "play", "play_launch"})
            => /\ stopRet # "none"
               /\ ~Has("LAUNCH") /\ ~Has("LAUNCH_FAIL")
               /\ current_process = None /\ current_stream_id = None
    /\ (SwitchesStream /\ AtRest)
            => /\ stopRet # "none"
               /\ TeardownBeforeLaunch
               /\ result = "True" <=> Has("LAUNCH")
               /\ result = "False" <=> Has("LAUNCH_FAIL")
               /\ result \in {"True", "False"}
               /\ result = "True"
                     => current_stream_id = op.arg /\ current_process # None
               /\ result = "False"
                     => current_stream_id = None /\ current_process = None

\* A switch away from a playing stream whose launch failed: the old process
\* was sent SIGTERM, and nothing is recorded as playing.
C34_Witness ==
    /\ SwitchesStream /\ AtRest
    /\ pre.stream_id # None
    /\ Has("TERM") /\ Has("LAUNCH_FAIL")
    /\ result = "False"
    /\ current_stream_id = None

\* C35: also when a cycle of the loop and a force_update of the caller meet
\* a failure of the primary source at the same time, the Notifier gets at
\* most one notification between two clearings of the throttle flag.
C35_ThrottleHoldsUnderConcurrency == windowToasts <= 1

\* C36: whatever start() and stop() calls were made, only the loop spawned
\* last executes cycles: a loop that a stop() left behind when its join
\* timed out begins no further cycle once start() has spawned a new one.
C36_OnlyTheLastLoopCycles ==
    [][\A t \in LoopTids :
          (th[t].pc = "top" /\ th'[t].pc = "fetch") => thread = Some(t)]_vars

\* The caller is inside force_update(name) for the name it passed
Forcing(name) == pc \in {"force", "forcing"} /\ query = Some(name)

InFullCycle(t, name, icy_info) ==
    IF NtsRaises(th[t].nts)
    THEN ErrorEntry(cache[name], clock)
    ELSE Some(NewEntry(Resolved(name, th[t].nts, icy_info), clock))

\* C38: the update force_update(name) makes leaves cache[name] with the
\* track_info and the source that a cycle over all streams leaves for the
\* same payload, probe result and prior entry, the entry of source 'error'
\* after an exception included.
C38_SinglePathEqualsFullCycle ==
    [][\A name \in StreamNames :
          (th[0].pc = "update" /\ th[0].only = Some(name) /\ th'[0] # th[0])
              => \E icy_info \in Probes(0, name) :
                    /\ cache'[name] # None
                    /\ Val(cache'[name]).track_info
                          = Val(InFullCycle(0, name, icy_info)).track_info
                    /\ Val(cache'[name]).source
                          = Val(InFullCycle(0, name, icy_info)).source]_vars

\* The caller is inside a method of the cache that takes the lock
InLockedCall == pc \in {"get", "get_all", "forcing"}

\* C39: no thread asks for the lock while it holds it, the lock is free
\* again when a thread leaves its locked section, by an exception too, and
\* so every get_now_playing, get_all_now_playing and force_update made while
\* the loop runs returns, provided every fetch and probe returns.
C39_LockCannotDeadlock ==
    /\ [](\A t \in Tids : th[t].pc = "lock" => lock # Some(t))
    /\ [](pc \in {"get", "get_all"} => lock # Some(0))
    /\ [][\A t \in Tids :
            (th[t].pc = "update" /\ th'[t].pc # "update") => lock' = None]_vars
    /\ [](lock # None => th[Val(lock)].pc = "update")
    /\ InLockedCall ~> pc = "idle"

\* get_now_playing('NTS1') has returned an entry of source 'error', written
\* under the lock by a round whose updates raised, and the lock is free.
C39_Witness ==
    /\ CacheCompleted("get_now_playing")
    /\ returned["NTS1"] # None
    /\ Val(returned["NTS1"]).source = "error"
    /\ lock = None

\* play(id) was called with a configured id while a handle was recorded
PlaysOverHandle ==
    /\ op.name = "play"
    /\ stream_id \in DOMAIN streams
    /\ pre.process # None

\* C40: play(id) called while a handle is recorded, for the same id too,
\* first stops the process of that handle and then launches: after success
\* the handle is a process launched by this call, and when the launch fails
\* the old process has been stopped and nothing is recorded as playing.
C40_PlayAlwaysRestarts ==
    /\ (PlaysOverHandle /\ pc = "play_launch")
            => /\ stopRet # "none"
               /\ current_process = None /\ current_stream_id = None
               /\ ~Running(pre.process)
    /\ (PlaysOverHandle /\ AtRest)
            => /\ stopRet # "none"
               /\ TeardownBeforeLaunch
               /\ Has("LAUNCH") \/ Has("LAUNCH_FAIL")
               /\ result = "True"
                     => /\ current_process # None
                        /\ current_process # pre.process
                        /\ \E i \in 1 .. Len(events) :
                              events[i] = Ev("LAUNCH", Val(current_process))
                        /\ current_stream_id = op.arg
               /\ result = "False"
                     => /\ current_process = None /\ current_stream_id = None
                        /\ ~Running(pre.process)

====
